---- MODULE Spec2Model ----
(***************************************************************************)
(* Position-lifecycle reconciliation engine of the Extended Exchange bot:  *)
(* the scheduler (src/src/utils/scheduler.py), the position validator      *)
(* (src/src/managers/position_manager.py), the order manager               *)
(* (src/src/managers/order_manager.py) and the state machine               *)
(* (src/src/trading_bot.py).                                               *)
(*                                                                         *)
(* Time is in seconds since 00:00:00 of day 0 in the configured timezone.  *)
(* Sizes are integers in units of 0.00001 (the position epsilon), prices   *)
(* are integers in cents, notionals are dollars * SizeUnit.                *)
(***************************************************************************)
EXTENDS Integers, Sequences, FiniteSets, TLC

VARIABLES
    schedule,          \* Config.OPEN_TIME / Config.CLOSE_TIME, seconds of day
    now,               \* the wall clock, datetime.now(Config.TIMEZONE)
    pc,                \* position of the single control thread
    is_running,        \* TradingBot.is_running
    bot_state,         \* TradingBot.bot_state
    last_trading_day,  \* Scheduler.last_trading_day (None when unset)
    venue,             \* the venue's positions: market -> signed size
    cyc,               \* record of what the current cycle has done so far
    calls,             \* venue order/cancel calls made in the current cycle
    accepted,          \* per basket leg, the opening orders the venue has accepted
                       \* since the process started or the last CLOSING -> WAITING
    confirmed_on,      \* the day _verify_opening confirmed the basket now held
    call               \* in the specifications of single functions: the
                       \* function called, its arguments and its result

vars ==
    <<schedule, now, pc, is_running, bot_state, last_trading_day, venue, cyc, calls,
      accepted, confirmed_on, call>>

----------------------------------------------------------------------------
(* Bounds of the model *)

\* Days 1..MaxDay are explored (day 0 exists only as a backdated trading day).
MaxDay == 2

\* A basket drawn as an input has at most MaxPerSide long and MaxPerSide
\* short pair_configs.
MaxPerSide == 1

----------------------------------------------------------------------------
(* Values *)

None == -1

\* No single function is under study: the whole engine runs
NoCall == [fn |-> "none"]

SecondsPerDay == 24 * 60 * 60

\* Scheduler._parse_time("%H:%M:%S") as seconds of the day
ParseTime(h, m, s) == h * 3600 + m * 60 + s

\* The schedules explored: a cross-midnight one (21:00:00 / 06:00:00) and a
\* same-day one (09:00:00 / 17:00:00).
Schedules ==
    { [open_time |-> ParseTime(21, 0, 0), close_time |-> ParseTime(6, 0, 0)],
      [open_time |-> ParseTime(9, 0, 0),  close_time |-> ParseTime(17, 0, 0)] }

Date(t) == t \div SecondsPerDay

TimeOfDay(t) == t % SecondsPerDay

Abs(x) == IF x < 0 THEN -x ELSE x

\* Offsets (seconds) around each trigger at which the clock is sampled.
TriggerOffsets == {-61, -60, 0, 60, 61}

\* The instants the clock takes in the model: around the two triggers of the
\* schedule, on each day explored.
Instants ==
    { d * SecondsPerDay + tod + k :
        d \in 1..MaxDay,
        tod \in {schedule.open_time, schedule.close_time},
        k \in TriggerOffsets }

\* time.sleep(n) and the blocking calls around it: at least n seconds pass.
After(n) == { t \in Instants : t >= now + n }

----------------------------------------------------------------------------
(* Scheduler *)

OpenWindow == 60

CloseLead == 60

NearBand == 300

ShortInterval == 30

LongInterval == 60

\* should_open_positions forgetting that today has been traded
ShouldOpenIgnoringDay(t, ltd, sch) ==
    Abs(TimeOfDay(t) - sch.open_time) <= 60

\* should_open_positions with a window of half the width
ShouldOpenNarrowWindow(t, ltd, sch) ==
    IF ltd = Date(t)
    THEN FALSE
    ELSE 2 * Abs(TimeOfDay(t) - sch.open_time) <= OpenWindow

\* Scheduler.should_open_positions
should_open_positions(t, ltd, sch) ==
    IF ltd = Date(t)
    THEN FALSE
    ELSE Abs(TimeOfDay(t) - sch.open_time) <= OpenWindow

\* should_close_positions answering by a window around the close time, as
\* should_open_positions does around the open time
ShouldCloseInWindow(t, ltd, sch) ==
    IF ltd = None
    THEN FALSE
    ELSE LET expected_close_date == IF sch.close_time < sch.open_time THEN ltd + 1 ELSE ltd
         IN  /\ Date(t) = expected_close_date
             /\ Abs(TimeOfDay(t) - sch.close_time) <= CloseLead

\* should_close_positions without the minute of lead: true from the close
\* time on
ShouldCloseWithoutLead(t, ltd, sch) ==
    IF ltd = None
    THEN FALSE
    ELSE LET expected_close_date == IF sch.close_time < sch.open_time THEN ltd + 1 ELSE ltd
         IN  IF Date(t) # expected_close_date
             THEN Date(t) > expected_close_date
             ELSE TimeOfDay(t) >= sch.close_time

\* should_close_positions taking every schedule for a same-day one
ShouldCloseSameDayOnly(t, ltd, sch) ==
    IF ltd = None
    THEN FALSE
    ELSE IF ltd # Date(t)
         THEN Date(t) > ltd
         ELSE TimeOfDay(t) - sch.close_time >= -60

\* should_close_positions without the recovery of a missed close: true on the
\* expected close date only
ShouldCloseNoRecovery(t, ltd, sch) ==
    IF ltd = None
    THEN FALSE
    ELSE LET expected_close_date == IF sch.close_time < sch.open_time THEN ltd + 1 ELSE ltd
         IN  /\ Date(t) = expected_close_date
             /\ TimeOfDay(t) - sch.close_time >= -60

\* Scheduler.should_close_positions
should_close_positions(t, ltd, sch) ==
    IF ltd = None
    THEN FALSE
    ELSE IF sch.close_time < sch.open_time
         THEN LET expected_close_date == ltd + 1
              IN  IF Date(t) > expected_close_date THEN TRUE
                  ELSE IF Date(t) = expected_close_date
                       THEN TimeOfDay(t) - sch.close_time >= -CloseLead
                       ELSE FALSE
         ELSE IF ltd # Date(t)
              THEN Date(t) > ltd
              ELSE TimeOfDay(t) - sch.close_time >= -CloseLead

\* is_near_trading_time looking at the open time only
IsNearOpenOnly(t, ltd, sch) == Abs(TimeOfDay(t) - sch.open_time) <= 300

\* Scheduler.is_near_trading_time
is_near_trading_time(t, ltd, sch) ==
    LET open_diff == Abs(TimeOfDay(t) - sch.open_time)
    IN  IF ltd # None
        THEN LET close_datetime ==
                    IF sch.close_time < sch.open_time
                    THEN (ltd + 1) * SecondsPerDay + sch.close_time
                    ELSE ltd * SecondsPerDay + sch.close_time
                 close_diff == Abs(t - close_datetime)
             IN  open_diff <= NearBand \/ close_diff <= NearBand
        ELSE open_diff <= NearBand

\* Scheduler.get_next_check_interval
get_next_check_interval(t, ltd, sch) ==
    IF is_near_trading_time(t, ltd, sch) THEN ShortInterval ELSE LongInterval

----------------------------------------------------------------------------
(* Configuration and venue data *)

\* 1.0 of an asset, in size units of 0.00001
SizeUnit == 10 * 10 * 10 * 10 * 10

CentsPerDollar == 10 * 10

\* The markets of the venue; SOL-USD is not in the configured basket.
Markets == {"BTC-USD", "ETH-USD", "SOL-USD"}

\* The order in which the venue reports (and the dicts iterate over) markets
MarketOrder == <<"BTC-USD", "ETH-USD", "SOL-USD">>

\* Config.get_all_long_pairs (LONG_PAIR1 / LONG_PAIR1_TARGET_SIZE, dollars)
long_pairs == << [pair |-> "BTC-USD", target_size |-> 10] >>

\* Config.get_all_short_pairs
short_pairs == << [pair |-> "ETH-USD", target_size |-> 10] >>

\* Config.PRICE_BUFFER = 0.0075, in 1/10000
PriceBuffer == 75

BufferScale == 100 * 100

\* get_market_precision: tradingConfig of a market (sizes in size units,
\* price step in cents)
MarketPrecision ==
    [min_order_size |-> 100, min_order_size_change |-> 100, min_price_change |-> 1]

\* Best ask and best bid of every market's order book, in cents
BestAsk == 100 * CentsPerDollar

BestBid == 100 * CentsPerDollar

\* Mark prices (dollars) the venue may report with a position
MarkPrices == {100, 98}

----------------------------------------------------------------------------
(* PositionManager *)

\* abs(size) > 0.00001, in size units
Epsilon == 1

\* TOLERANCE = 0.01, in percent
TolerancePct == 1

NoPositions == [m \in {} |-> [size |-> 0, side |-> "LONG", mark_price |-> 0]]

\* The venue's answer to GET /user/positions, as get_current_positions keeps it
Snapshot(v, mark) ==
    [m \in {x \in Markets : Abs(v[x]) > Epsilon} |->
        [size |-> v[m],
         side |-> IF v[m] > 0 THEN "LONG" ELSE "SHORT",
         mark_price |-> mark]]

\* PositionManager.get_current_positions: the snapshot, or {} when the request
\* fails (fetch.ok = FALSE)
get_current_positions(v, fetch) ==
    IF fetch.ok THEN Snapshot(v, fetch.mark) ELSE NoPositions

\* The outcomes of one position request
Fetches == {[ok |-> FALSE, mark |-> 0]} \cup [ok : {TRUE}, mark : MarkPrices]

\* PositionManager.get_position_notional_value (dollars * SizeUnit)
get_position_notional_value(position) == Abs(position.size) * position.mark_price

\* One pair_config's entry of results in validate_position_sizes
PairValid(positions, pair_config) ==
    IF pair_config.pair \notin DOMAIN positions
    THEN FALSE
    ELSE LET actual_notional == get_position_notional_value(positions[pair_config.pair])
             target_notional == pair_config.target_size * SizeUnit
         IN  IF target_notional > 0
             THEN 100 * Abs(actual_notional - target_notional) <= TolerancePct * target_notional
             ELSE FALSE

\* The results dict of validate_position_sizes: keyed by pair, a later entry
\* of expected_pairs overwrites an earlier one with the same pair
ValidationResults(positions, expected_pairs) ==
    [p \in {expected_pairs[i].pair : i \in DOMAIN expected_pairs} |->
        LET last == CHOOSE i \in DOMAIN expected_pairs :
                        /\ expected_pairs[i].pair = p
                        /\ \A j \in DOMAIN expected_pairs :
                              expected_pairs[j].pair = p => j <= i
        IN  PairValid(positions, expected_pairs[last])]

\* validate_position_sizes without its check for an empty expected_pairs
ValidateWithoutEmptyCheck(positions, expected_pairs) ==
    LET results == ValidationResults(positions, expected_pairs)
    IN  \A p \in DOMAIN results : results[p]

\* PositionManager.validate_position_sizes (is_valid)
validate_position_sizes(positions, expected_pairs) ==
    IF expected_pairs = << >>
    THEN FALSE
    ELSE LET results == ValidationResults(positions, expected_pairs)
         IN  \A p \in DOMAIN results : results[p]

\* PositionManager.has_positions
has_positions(positions) == Cardinality(DOMAIN positions) > 0

----------------------------------------------------------------------------
(* OrderManager *)

CeilDiv(a, b) == (a + b - 1) \div b

\* The decimals of f"{step:.10f}"
MaxDecimals == 10

RECURSIVE Pow10(_)
Pow10(k) == IF k = 0 THEN 1 ELSE 10 * Pow10(k - 1)

\* The decimal places quantize prints, for a step given in units of 1/one:
\* none when step >= 1, else the digits the step has after the point
decimal_places(step, one) ==
    IF step >= one THEN 0
    ELSE CHOOSE k \in 0..MaxDecimals :
            /\ Pow10(k) <= one /\ step % (one \div Pow10(k)) = 0
            /\ \A j \in 0..(k - 1) : step % (one \div Pow10(j)) # 0

\* f"{q:.{decimal_places}f}": q (in units of 1/one) printed with that many
\* decimals, a tie going to the even digit; the value printed, in the same units
FormatFixed(q, places, one) ==
    LET grain == one \div Pow10(places)
        lo    == (q \div grain) * grain
        rest  == q - lo
    IN  IF 2 * rest < grain THEN lo
        ELSE IF 2 * rest > grain THEN lo + grain
        ELSE IF (q \div grain) % 2 = 0 THEN lo ELSE lo + grain

\* OrderManager.quantize of the value num/den with a step in units of 1/one:
\* math.ceil(value / step) * step, printed with the decimal places of the step
\* (round(q, 10) changes nothing at these units)
quantize(num, den, step, one) ==
    FormatFixed(CeilDiv(num, den * step) * step, decimal_places(step, one), one)

\* What the venue answers to one place_order: status OK and filled, status OK
\* and the IOC remainder cancelled unfilled, or not OK / an exception
PlaceOutcomes == {"filled", "unfilled", "rejected"}

\* How one leg of open_all_positions goes: the precision request fails (the
\* fallback dict has no min_order_size, so the leg raises before any order),
\* or a first placement and, after a rejected one, a second
LegOutcomes ==
    { <<"noprec">>, <<"filled">>, <<"unfilled">>,
      <<"rejected", "filled">>, <<"rejected", "unfilled">>, <<"rejected", "rejected">> }

\* The legs in the order open_all_positions places them: longs, then shorts
LegsOf(long, short) ==
    [i \in 1..(Len(long) + Len(short)) |->
        IF i <= Len(long)
        THEN [pair_config |-> long[i], side |-> "BUY"]
        ELSE [pair_config |-> short[i - Len(long)], side |-> "SELL"]]

\* The legs of the configured basket
Legs == LegsOf(long_pairs, short_pairs)

\* Price of an opening leg at the quotes (ask, bid) of its market:
\* ask * (1 + buffer) for a long, bid * (1 - buffer) for a short, quantized to
\* min_price_change (cents)
OpenPriceAt(side, ask, bid, precision) ==
    IF side = "BUY"
    THEN quantize(ask * (BufferScale + PriceBuffer), BufferScale,
                  precision.min_price_change, CentsPerDollar)
    ELSE quantize(bid * (BufferScale - PriceBuffer), BufferScale,
                  precision.min_price_change, CentsPerDollar)

\* Quantity of an opening leg: target_size / price, raised to min_order_size,
\* quantized to min_order_size_change (size units)
OpenQtyAt(target_size, price, precision) ==
    LET num == target_size * SizeUnit * CentsPerDollar
    IN  IF num < precision.min_order_size * price
        THEN quantize(precision.min_order_size, 1, precision.min_order_size_change, SizeUnit)
        ELSE quantize(num, price, precision.min_order_size_change, SizeUnit)

\* The price and the quantity of a leg in the engine's market
OpenPrice(side) == OpenPriceAt(side, BestAsk, BestBid, MarketPrecision)

OpenQty(target_size, price) == OpenQtyAt(target_size, price, MarketPrecision)

CancelCall(st) ==
    [op |-> "cancel", market |-> "-", side |-> "-", qty |-> 0, price |-> 0,
     result |-> "-", st |-> st]

OrderCall(purpose, market, side, qty, price, result, st) ==
    [op |-> purpose, market |-> market, side |-> side, qty |-> qty, price |-> price,
     result |-> result, st |-> st]

LeverageCall(market, st) ==
    [op |-> "leverage", market |-> market, side |-> "-", qty |-> 0, price |-> 0,
     result |-> "-", st |-> st]

\* OpenLeg placing the order a third time after a rejected retry
OpenLegThirdAttempt(leg, outcome, st) ==
    LET price == OpenPrice(leg.side)
        qty   == OpenQty(leg.pair_config.target_size, price)
        tries == IF outcome = <<"rejected", "rejected">>
                 THEN <<"rejected", "rejected", "rejected">> ELSE outcome
    IN  IF outcome = <<"noprec">>
        THEN [calls |-> << >>, success |-> FALSE, fill |-> 0, retries |-> 0]
        ELSE [calls   |-> [k \in 1..Len(tries) |->
                              OrderCall("open", leg.pair_config.pair, leg.side, qty, price,
                                        tries[k], st)],
              success |-> tries[Len(tries)] # "rejected",
              fill    |-> IF tries[Len(tries)] # "filled" THEN 0
                          ELSE IF leg.side = "BUY" THEN qty ELSE -qty,
              retries |-> Len(tries) - 1]

\* One iteration of the long / short loop of open_all_positions
OpenLeg(leg, outcome, st) ==
    LET price == OpenPrice(leg.side)
        qty   == OpenQty(leg.pair_config.target_size, price)
        last  == outcome[Len(outcome)]
    IN  IF outcome = <<"noprec">>
        THEN [calls |-> << >>, success |-> FALSE, fill |-> 0, retries |-> 0]
        ELSE [calls   |-> [k \in 1..Len(outcome) |->
                              OrderCall("open", leg.pair_config.pair, leg.side, qty, price,
                                        outcome[k], st)],
              success |-> last # "rejected",
              fill    |-> IF last # "filled" THEN 0
                          ELSE IF leg.side = "BUY" THEN qty ELSE -qty,
              retries |-> Len(outcome) - 1]

RECURSIVE ConcatCalls(_, _)
ConcatCalls(runs, n) ==
    IF n = 0 THEN << >> ELSE ConcatCalls(runs, n - 1) \o runs[n].calls

RECURSIVE SumOver(_, _, _)
SumOver(runs, idx, field) ==
    IF idx = {} THEN 0
    ELSE LET i == CHOOSE x \in idx : TRUE
         IN  (IF field = "fill" THEN runs[i].fill ELSE runs[i].retries)
             + SumOver(runs, idx \ {i}, field)

\* results[pair] of open_all_positions: the last leg of a pair decides
OpenResults(legs, runs) ==
    [p \in {legs[i].pair_config.pair : i \in DOMAIN legs} |->
        LET last == CHOOSE i \in DOMAIN legs :
                        /\ legs[i].pair_config.pair = p
                        /\ \A j \in DOMAIN legs : legs[j].pair_config.pair = p => j <= i
        IN  runs[last].success]

\* open_all_positions going on to the legs although the price request failed
OpenAllWithoutPrices(long, short, prices_ok, outs, v, st) ==
    IF Len(long) + Len(short) = 0
    THEN [calls |-> <<CancelCall(st)>>, success |-> FALSE, venue |-> v, slept |-> 2,
          leg_ok |-> << >>]
    ELSE LET legs    == LegsOf(long, short)
             runs    == [i \in DOMAIN legs |-> OpenLeg(legs[i], outs[i], st)]
             results == OpenResults(legs, runs)
         IN  [calls   |-> <<CancelCall(st)>> \o ConcatCalls(runs, Len(legs)),
              success |-> \A p \in DOMAIN results : results[p],
              venue   |-> [m \in Markets |->
                              v[m] + SumOver(runs, {i \in DOMAIN legs :
                                                      legs[i].pair_config.pair = m}, "fill")],
              slept   |-> 2 + 2 * SumOver(runs, DOMAIN legs, "retries"),
              leg_ok  |-> [i \in DOMAIN legs |-> runs[i].success]]

\* OrderManager.open_all_positions: prices_ok says whether
\* get_market_prices_for_pairs returned, outs how each leg goes. Gives the
\* calls made, the value returned, the fills, the seconds slept and, for the
\* record, what became of each leg.
open_all_positions(long, short, prices_ok, outs, v, st) ==
    IF Len(long) + Len(short) = 0
    THEN [calls |-> <<CancelCall(st)>>, success |-> FALSE, venue |-> v, slept |-> 2,
          leg_ok |-> << >>]
    ELSE IF ~prices_ok
    THEN [calls |-> <<CancelCall(st)>>, success |-> FALSE, venue |-> v, slept |-> 2,
          leg_ok |-> << >>]
    ELSE LET legs    == LegsOf(long, short)
             runs    == [i \in DOMAIN legs |-> OpenLeg(legs[i], outs[i], st)]
             results == OpenResults(legs, runs)
         IN  [calls   |-> <<CancelCall(st)>> \o ConcatCalls(runs, Len(legs)),
              success |-> \A p \in DOMAIN results : results[p],
              venue   |-> [m \in Markets |->
                              v[m] + SumOver(runs, {i \in DOMAIN legs :
                                                      legs[i].pair_config.pair = m}, "fill")],
              slept   |-> 2 + 2 * SumOver(runs, DOMAIN legs, "retries"),
              leg_ok  |-> [i \in DOMAIN legs |-> runs[i].success]]

\* PairsToClose keeping only the pairs of the configured basket
RECURSIVE PairsToCloseBasket(_, _)
PairsToCloseBasket(positions, n) ==
    IF n = 0 THEN << >>
    ELSE PairsToCloseBasket(positions, n - 1)
         \o (IF /\ MarketOrder[n] \in DOMAIN positions
                /\ \E i \in DOMAIN Legs : Legs[i].pair_config.pair = MarketOrder[n]
             THEN <<MarketOrder[n]>> ELSE << >>)

\* The markets of a snapshot in the order the dict iterates over them
RECURSIVE PairsToClose(_, _)
PairsToClose(positions, n) ==
    IF n = 0 THEN << >>
    ELSE PairsToClose(positions, n - 1)
         \o (IF MarketOrder[n] \in DOMAIN positions THEN <<MarketOrder[n]>> ELSE << >>)

\* CloseLeg trading in the direction of the position: BUY for a long, SELL for
\* a short
CloseLegSameSide(pair, position_data, outcome, st) ==
    LET size == Abs(position_data.size)
        qty  == quantize(size, 1, MarketPrecision.min_order_size_change, SizeUnit)
    IN  IF size <= Epsilon
        THEN [calls |-> << >>, fill |-> 0]
        ELSE IF position_data.side = "LONG"
        THEN [calls |-> <<OrderCall("close", pair, "BUY", qty,
                              quantize(BestAsk * (BufferScale + PriceBuffer), BufferScale,
                                       MarketPrecision.min_price_change, CentsPerDollar),
                              outcome, st)>>,
              fill  |-> IF outcome = "filled" THEN qty ELSE 0]
        ELSE [calls |-> <<OrderCall("close", pair, "SELL", qty,
                              quantize(BestBid * (BufferScale - PriceBuffer), BufferScale,
                                       MarketPrecision.min_price_change, CentsPerDollar),
                              outcome, st)>>,
              fill  |-> IF outcome = "filled" THEN -qty ELSE 0]

\* One iteration of the loop of close_all_positions at the quotes (ask, bid)
\* and the precision of the market
CloseLegAt(pair, position_data, ask, bid, precision, outcome, st) ==
    LET size == Abs(position_data.size)
        qty  == quantize(size, 1, precision.min_order_size_change, SizeUnit)
    IN  IF size <= Epsilon
        THEN [calls |-> << >>, fill |-> 0]
        ELSE IF position_data.side = "LONG"
        THEN [calls |-> <<OrderCall("close", pair, "SELL", qty,
                              quantize(bid * (BufferScale - PriceBuffer), BufferScale,
                                       precision.min_price_change, CentsPerDollar),
                              outcome, st)>>,
              fill  |-> IF outcome = "filled" THEN -qty ELSE 0]
        ELSE [calls |-> <<OrderCall("close", pair, "BUY", qty,
                              quantize(ask * (BufferScale + PriceBuffer), BufferScale,
                                       precision.min_price_change, CentsPerDollar),
                              outcome, st)>>,
              fill  |-> IF outcome = "filled" THEN qty ELSE 0]

\* One iteration of the loop of close_all_positions in the engine's market
CloseLeg(pair, position_data, outcome, st) ==
    CloseLegAt(pair, position_data, BestAsk, BestBid, MarketPrecision, outcome, st)

\* OrderManager.close_all_positions
close_all_positions(positions, prices_ok, outs, v, st) ==
    IF DOMAIN positions = {}
    THEN [calls |-> << >>, success |-> TRUE, venue |-> v, slept |-> 0]
    ELSE IF ~prices_ok
    THEN [calls |-> <<CancelCall(st)>>, success |-> FALSE, venue |-> v, slept |-> 2]
    ELSE LET pairs == PairsToClose(positions, Len(MarketOrder))
             runs  == [i \in DOMAIN pairs |->
                          CloseLeg(pairs[i], positions[pairs[i]], outs[pairs[i]], st)]
         IN  [calls   |-> <<CancelCall(st)>> \o ConcatCalls(runs, Len(pairs)),
              success |-> TRUE,
              venue   |-> [m \in Markets |->
                              v[m] + SumOver(runs, {i \in DOMAIN pairs : pairs[i] = m}, "fill")],
              slept   |-> 2]

----------------------------------------------------------------------------
(* TradingBot: the state machine *)

SettleDelay == 30

RetryDelay == 5

\* The count of accepted opening orders of a leg: "none", "one" or "many"; it
\* is "off" in the specifications that do not keep it
NotCounted == [i \in DOMAIN Legs |-> "off"]

\* No opening order accepted yet
NoneAccepted == [i \in DOMAIN Legs |-> IF accepted[i] = "off" THEN "off" ELSE "none"]

\* accepted after the calls cs of one open_all_positions: place_order returned
\* True for every order the venue answered with status OK, filled or not
AcceptedAfter(cs) ==
    [i \in DOMAIN Legs |->
        LET more == {k \in DOMAIN cs : /\ cs[k].op = "open"
                                       /\ cs[k].market = Legs[i].pair_config.pair
                                       /\ cs[k].side = Legs[i].side
                                       /\ cs[k].result # "rejected"}
        IN  IF accepted[i] = "off" \/ more = {} THEN accepted[i]
            ELSE IF accepted[i] = "none" /\ Cardinality(more) = 1 THEN "one"
            ELSE "many"]

\* The day of the confirmation is not kept in the specifications that do not
\* ask for it
NotKept == None - 1

\* No confirmed basket is held
NoneConfirmed == IF confirmed_on = NotKept THEN NotKept ELSE None

\* _verify_opening finds the basket valid at time t
ConfirmedAt(t) == IF confirmed_on = NotKept THEN NotKept ELSE Date(t)

\* long_pairs + short_pairs
all_expected_pairs == long_pairs \o short_pairs

\* The record of a cycle that has done nothing yet
NewCycle(kind, trigger) ==
    [kind        |-> kind,              \* "startup", "idle", "open" or "close"
     start_state |-> bot_state,         \* bot_state when the cycle began
     day0        |-> last_trading_day,  \* last_trading_day when the cycle began
     trigger     |-> trigger,           \* what the scheduler answered
     result      |-> "none",            \* what open/close_all_positions returned
     prices      |-> "none",            \* how its price request went: "ok" or "fail"
     snapshot    |-> NoPositions,       \* the positions handed to close_all_positions
     snapshot_ok |-> FALSE,             \* whether the request for them returned
     checks      |-> << >>]             \* the verifications: request ok, positions, verdict

\* No cycle is under way: before startup, during the poll sleep's wake-up
NoCycle ==
    [kind |-> "none", start_state |-> "WAITING", day0 |-> None, trigger |-> FALSE,
     result |-> "none", prices |-> "none", snapshot |-> NoPositions,
     snapshot_ok |-> FALSE, checks |-> << >>]

Check(fetch, positions, pass) == [ok |-> fetch.ok, positions |-> positions, pass |-> pass]

\* The states the venue's positions may be in when the process starts
InitialVenues ==
    { [m \in Markets |-> 0],
      [m \in Markets |-> IF m = "BTC-USD" THEN 10000 ELSE IF m = "ETH-USD" THEN -10100 ELSE 0],
      [m \in Markets |-> IF m = "BTC-USD" THEN 10000 ELSE IF m = "ETH-USD" THEN -10100 ELSE 5000],
      [m \in Markets |-> IF m = "SOL-USD" THEN 1 ELSE 0] }

\* TradingBot.__init__ and Scheduler.__init__
Init ==
    /\ schedule \in Schedules
    /\ now \in {t \in Instants : Date(t) = 1}
    /\ pc = "constructed"
    /\ is_running = FALSE
    /\ bot_state = "WAITING"
    /\ last_trading_day = None
    /\ venue \in InitialVenues
    /\ cyc = NoCycle
    /\ calls = << >>
    /\ accepted = NotCounted
    /\ confirmed_on = NotKept
    /\ call = NoCall

\* StartupTradingDay with the mark forgotten
StartupTradingDayUnset(t, sch) == None

\* StartupTradingDay without the backdating: today for every schedule
StartupTradingDayToday(t, sch) == Date(t)

\* Scheduler.mark_trading_day at startup: yesterday for a cross-midnight
\* schedule, today otherwise
StartupTradingDay(t, sch) ==
    IF sch.close_time < sch.open_time THEN Date(t) - 1 ELSE Date(t)

\* TradingBot.initialize: the leverage calls
LeverageCalls ==
    [i \in DOMAIN all_expected_pairs |-> LeverageCall(all_expected_pairs[i].pair, bot_state)]

\* InitializeState taking any reported position for an open basket
InitializeStateAnyPosition(fetch) ==
    LET positions == get_current_positions(venue, fetch)
        is_valid  == validate_position_sizes(positions, all_expected_pairs)
        is_open   == has_positions(positions)
    IN  /\ bot_state' = IF is_open THEN "OPEN" ELSE "WAITING"
        /\ last_trading_day' = IF is_open THEN StartupTradingDay(now, schedule)
                               ELSE last_trading_day
        /\ cyc' = [NewCycle("startup", FALSE) EXCEPT
                      !.snapshot = positions,
                      !.snapshot_ok = fetch.ok,
                      !.checks = <<Check(fetch, positions, is_valid)>>]

\* TradingBot._initialize_state
InitializeState(fetch) ==
    LET positions == get_current_positions(venue, fetch)
        is_valid  == validate_position_sizes(positions, all_expected_pairs)
    IN  /\ bot_state' = IF is_valid THEN "OPEN" ELSE "WAITING"
        /\ last_trading_day' = IF is_valid THEN StartupTradingDay(now, schedule)
                               ELSE last_trading_day
        /\ cyc' = [NewCycle("startup", FALSE) EXCEPT
                      !.snapshot = positions,
                      !.snapshot_ok = fetch.ok,
                      !.checks = <<Check(fetch, positions, is_valid)>>]

\* TradingBot.start up to the loop: initialize() succeeds
Start ==
    /\ pc = "constructed"
    /\ \E fetch \in Fetches : InitializeState(fetch)
    /\ calls' = LeverageCalls
    /\ is_running' = TRUE
    /\ pc' = "cycle"
    /\ UNCHANGED <<call, accepted, confirmed_on, schedule, now, venue>>

\* TradingBot.start: initialize() raises (a leverage call fails), the finally
\* clause calls stop()
StartFails ==
    /\ pc = "constructed"
    /\ \E n \in DOMAIN LeverageCalls : calls' = SubSeq(LeverageCalls, 1, n)
    /\ is_running' = FALSE
    /\ pc' = "stopped"
    /\ UNCHANGED <<call, accepted, confirmed_on, schedule, now, bot_state, last_trading_day,
                   venue, cyc>>

\* OpenTrigger with the assignment of OPENING forgotten
OpenTriggerNoState ==
    /\ pc = "cycle"
    /\ bot_state = "WAITING"
    /\ should_open_positions(now, last_trading_day, schedule)
    /\ cyc' = NewCycle("open", TRUE)
    /\ calls' = << >>
    /\ pc' = "open_all"
    /\ UNCHANGED <<call, accepted, confirmed_on, schedule, now, is_running, bot_state,
                   last_trading_day, venue>>

\* OpenTrigger without asking the scheduler
OpenTriggerUnscheduled ==
    /\ pc = "cycle"
    /\ bot_state = "WAITING"
    /\ cyc' = NewCycle("open", TRUE)
    /\ calls' = << >>
    /\ bot_state' = "OPENING"
    /\ pc' = "open_all"
    /\ UNCHANGED <<call, accepted, confirmed_on, schedule, now, is_running, last_trading_day,
                   venue>>

\* _process_trading_cycle, bot_state == "WAITING", should_open_positions() true:
\* _open_positions sets OPENING
OpenTrigger ==
    /\ pc = "cycle"
    /\ bot_state = "WAITING"
    /\ should_open_positions(now, last_trading_day, schedule)
    /\ cyc' = NewCycle("open", TRUE)
    /\ calls' = << >>
    /\ bot_state' = "OPENING"
    /\ pc' = "open_all"
    /\ UNCHANGED <<call, accepted, confirmed_on, schedule, now, is_running, last_trading_day,
                   venue>>

\* _process_trading_cycle, bot_state == "WAITING", should_open_positions() false
WaitingIdle ==
    /\ pc = "cycle"
    /\ bot_state = "WAITING"
    /\ ~should_open_positions(now, last_trading_day, schedule)
    /\ cyc' = NewCycle("idle", FALSE)
    /\ calls' = << >>
    /\ pc' = "poll_sleep"
    /\ UNCHANGED <<call, accepted, confirmed_on, schedule, now, is_running, bot_state,
                   last_trading_day, venue>>

\* CloseTrigger with the assignment of CLOSING forgotten
CloseTriggerNoState ==
    /\ pc = "cycle"
    /\ bot_state = "OPEN"
    /\ should_close_positions(now, last_trading_day, schedule)
    /\ cyc' = NewCycle("close", TRUE)
    /\ calls' = << >>
    /\ pc' = "close_all"
    /\ UNCHANGED <<call, accepted, confirmed_on, schedule, now, is_running, bot_state,
                   last_trading_day, venue>>

\* _process_trading_cycle, bot_state == "OPEN", should_close_positions() true:
\* _close_positions sets CLOSING
CloseTrigger ==
    /\ pc = "cycle"
    /\ bot_state = "OPEN"
    /\ should_close_positions(now, last_trading_day, schedule)
    /\ cyc' = NewCycle("close", TRUE)
    /\ calls' = << >>
    /\ bot_state' = "CLOSING"
    /\ pc' = "close_all"
    /\ UNCHANGED <<call, accepted, confirmed_on, schedule, now, is_running, last_trading_day,
                   venue>>

\* _process_trading_cycle, bot_state == "OPEN", should_close_positions() false
OpenIdle ==
    /\ pc = "cycle"
    /\ bot_state = "OPEN"
    /\ ~should_close_positions(now, last_trading_day, schedule)
    /\ cyc' = NewCycle("idle", FALSE)
    /\ calls' = << >>
    /\ pc' = "poll_sleep"
    /\ UNCHANGED <<call, accepted, confirmed_on, schedule, now, is_running, bot_state,
                   last_trading_day, venue>>

\* _process_trading_cycle, bot_state == "OPENING" or "CLOSING" when a cycle
\* begins: _verify_opening / _verify_closing. No cycle ends in either state,
\* so these branches are not part of Next.
TransientCycle ==
    /\ pc = "cycle"
    /\ bot_state \in {"OPENING", "CLOSING"}
    /\ cyc' = NewCycle(IF bot_state = "OPENING" THEN "open" ELSE "close", FALSE)
    /\ calls' = << >>
    /\ pc' = IF bot_state = "OPENING" THEN "verify_opening" ELSE "verify_closing"
    /\ UNCHANGED <<call, accepted, confirmed_on, schedule, now, is_running, bot_state,
                   last_trading_day, venue>>

\* OpenAll with the value returned by open_all_positions ignored
OpenAllIgnoringResult ==
    /\ pc = "open_all"
    /\ \E prices_ok \in BOOLEAN, outs \in [DOMAIN Legs -> LegOutcomes] :
          LET r == open_all_positions(long_pairs, short_pairs, prices_ok, outs,
                                      venue, bot_state)
          IN  /\ calls' = calls \o r.calls
              /\ venue' = r.venue
              /\ accepted' = AcceptedAfter(r.calls)
              /\ cyc' = [cyc EXCEPT !.result = IF r.success THEN "ok" ELSE "fail",
                                    !.prices = IF prices_ok THEN "ok" ELSE "fail"]
              /\ now' \in After(r.slept + SettleDelay)
              /\ pc' = "verify_opening"
              /\ bot_state' = bot_state
    /\ UNCHANGED <<call, confirmed_on, schedule, is_running, last_trading_day>>

\* OpenAll with a failed open_all_positions ending the loop
OpenAllFailureStops ==
    /\ pc = "open_all"
    /\ \E prices_ok \in BOOLEAN, outs \in [DOMAIN Legs -> LegOutcomes] :
          LET r == open_all_positions(long_pairs, short_pairs, prices_ok, outs,
                                      venue, bot_state)
          IN  /\ calls' = calls \o r.calls
              /\ venue' = r.venue
              /\ accepted' = AcceptedAfter(r.calls)
              /\ cyc' = [cyc EXCEPT !.result = IF r.success THEN "ok" ELSE "fail",
                                    !.prices = IF prices_ok THEN "ok" ELSE "fail"]
              /\ IF r.success
                 THEN /\ now' \in After(r.slept + SettleDelay)
                      /\ pc' = "verify_opening"
                      /\ bot_state' = bot_state
                      /\ is_running' = is_running
                 ELSE /\ now' \in After(r.slept)
                      /\ pc' = "stopped"
                      /\ bot_state' = "WAITING"
                      /\ is_running' = FALSE
    /\ UNCHANGED <<call, confirmed_on, schedule, last_trading_day>>

\* _open_positions after OPENING is set: open_all_positions, then the settle
\* sleep when it returned True, WAITING when it returned False
OpenAll ==
    /\ pc = "open_all"
    /\ \E prices_ok \in BOOLEAN, outs \in [DOMAIN Legs -> LegOutcomes] :
          LET r == open_all_positions(long_pairs, short_pairs, prices_ok, outs,
                                      venue, bot_state)
          IN  /\ calls' = calls \o r.calls
              /\ venue' = r.venue
              /\ accepted' = AcceptedAfter(r.calls)
              /\ cyc' = [cyc EXCEPT !.result = IF r.success THEN "ok" ELSE "fail",
                                    !.prices = IF prices_ok THEN "ok" ELSE "fail"]
              /\ IF r.success
                 THEN /\ now' \in After(r.slept + SettleDelay)
                      /\ pc' = "verify_opening"
                      /\ bot_state' = bot_state
                 ELSE /\ now' \in After(r.slept)
                      /\ pc' = "poll_sleep"
                      /\ bot_state' = "WAITING"
    /\ UNCHANGED <<call, confirmed_on, schedule, is_running, last_trading_day>>

\* _verify_opening up to the retry: positions valid -> OPEN and the trading
\* day is marked; otherwise sleep and retry
VerifyOpening ==
    /\ pc = "verify_opening"
    /\ \E fetch \in Fetches :
          LET positions == get_current_positions(venue, fetch)
              is_valid  == validate_position_sizes(positions, all_expected_pairs)
          IN  /\ cyc' = [cyc EXCEPT !.checks = Append(@, Check(fetch, positions, is_valid))]
              /\ confirmed_on' = IF is_valid THEN ConfirmedAt(now) ELSE confirmed_on
              /\ IF is_valid
                 THEN /\ bot_state' = "OPEN"
                      /\ last_trading_day' = Date(now)
                      /\ pc' = "poll_sleep"
                      /\ now' = now
                 ELSE /\ now' \in After(RetryDelay)
                      /\ pc' = "verify_opening_retry"
                      /\ UNCHANGED <<bot_state, last_trading_day>>
    /\ UNCHANGED <<call, accepted, schedule, is_running, venue, calls>>

\* VerifyOpeningRetry retrying again instead of giving up
VerifyOpeningRetryAgain ==
    /\ pc = "verify_opening_retry"
    /\ \E fetch \in Fetches :
          LET positions == get_current_positions(venue, fetch)
              is_valid  == validate_position_sizes(positions, all_expected_pairs)
          IN  /\ cyc' = [cyc EXCEPT !.checks = Append(@, Check(fetch, positions, is_valid))]
              /\ confirmed_on' = IF is_valid THEN ConfirmedAt(now) ELSE confirmed_on
              /\ IF is_valid
                 THEN /\ bot_state' = "OPEN"
                      /\ last_trading_day' = Date(now)
                      /\ pc' = "poll_sleep"
                      /\ now' = now
                 ELSE /\ now' \in After(RetryDelay)
                      /\ pc' = "verify_opening_retry"
                      /\ UNCHANGED <<bot_state, last_trading_day>>
    /\ UNCHANGED <<call, accepted, schedule, is_running, venue, calls>>

\* VerifyOpeningRetry leaving the state at OPENING when the basket is still
\* invalid
VerifyOpeningRetryNoFallback ==
    /\ pc = "verify_opening_retry"
    /\ \E fetch \in Fetches :
          LET positions == get_current_positions(venue, fetch)
              is_valid  == validate_position_sizes(positions, all_expected_pairs)
          IN  /\ cyc' = [cyc EXCEPT !.checks = Append(@, Check(fetch, positions, is_valid))]
              /\ confirmed_on' = IF is_valid THEN ConfirmedAt(now) ELSE confirmed_on
              /\ IF is_valid
                 THEN /\ bot_state' = "OPEN"
                      /\ last_trading_day' = Date(now)
                 ELSE /\ bot_state' = bot_state
                      /\ UNCHANGED last_trading_day
    /\ pc' = "poll_sleep"
    /\ UNCHANGED <<call, accepted, schedule, now, is_running, venue, calls>>

\* _verify_opening, the retry: OPEN and marked, or back to WAITING
VerifyOpeningRetry ==
    /\ pc = "verify_opening_retry"
    /\ \E fetch \in Fetches :
          LET positions == get_current_positions(venue, fetch)
              is_valid  == validate_position_sizes(positions, all_expected_pairs)
          IN  /\ cyc' = [cyc EXCEPT !.checks = Append(@, Check(fetch, positions, is_valid))]
              /\ confirmed_on' = IF is_valid THEN ConfirmedAt(now) ELSE confirmed_on
              /\ IF is_valid
                 THEN /\ bot_state' = "OPEN"
                      /\ last_trading_day' = Date(now)
                 ELSE /\ bot_state' = "WAITING"
                      /\ UNCHANGED last_trading_day
    /\ pc' = "poll_sleep"
    /\ UNCHANGED <<call, accepted, schedule, now, is_running, venue, calls>>

\* _close_positions after CLOSING is set: the snapshot, close_all_positions,
\* then the settle sleep when it returned True, OPEN when it returned False
CloseAll ==
    /\ pc = "close_all"
    /\ \E fetch \in Fetches, prices_ok \in BOOLEAN, outs \in [Markets -> PlaceOutcomes] :
          LET positions == get_current_positions(venue, fetch)
              r == close_all_positions(positions, prices_ok, outs, venue, bot_state)
          IN  /\ calls' = calls \o r.calls
              /\ venue' = r.venue
              /\ cyc' = [cyc EXCEPT !.result = IF r.success THEN "ok" ELSE "fail",
                                    !.prices = IF DOMAIN positions = {} THEN "none"
                                               ELSE IF prices_ok THEN "ok" ELSE "fail",
                                    !.snapshot = positions,
                                    !.snapshot_ok = fetch.ok]
              /\ IF r.success
                 THEN /\ now' \in After(r.slept + SettleDelay)
                      /\ pc' = "verify_closing"
                      /\ bot_state' = bot_state
                 ELSE /\ now' \in After(r.slept)
                      /\ pc' = "poll_sleep"
                      /\ bot_state' = "OPEN"
    /\ UNCHANGED <<call, accepted, confirmed_on, schedule, is_running, last_trading_day>>

\* VerifyClosing going to WAITING without reset_trading_day
VerifyClosingKeepsDay ==
    /\ pc = "verify_closing"
    /\ \E fetch \in Fetches :
          LET positions == get_current_positions(venue, fetch)
              closed    == ~has_positions(positions)
          IN  /\ cyc' = [cyc EXCEPT !.checks = Append(@, Check(fetch, positions, closed))]
              /\ accepted' = IF closed THEN NoneAccepted ELSE accepted
              /\ confirmed_on' = IF closed THEN NoneConfirmed ELSE confirmed_on
              /\ IF closed
                 THEN /\ bot_state' = "WAITING"
                      /\ last_trading_day' = last_trading_day
                      /\ pc' = "poll_sleep"
                      /\ now' = now
                 ELSE /\ now' \in After(RetryDelay)
                      /\ pc' = "verify_closing_retry"
                      /\ UNCHANGED <<bot_state, last_trading_day>>
    /\ UNCHANGED <<call, schedule, is_running, venue, calls>>

\* _verify_closing up to the retry: no positions -> WAITING and the trading
\* day is reset; otherwise sleep and retry
VerifyClosing ==
    /\ pc = "verify_closing"
    /\ \E fetch \in Fetches :
          LET positions == get_current_positions(venue, fetch)
              closed    == ~has_positions(positions)
          IN  /\ cyc' = [cyc EXCEPT !.checks = Append(@, Check(fetch, positions, closed))]
              /\ accepted' = IF closed THEN NoneAccepted ELSE accepted
              /\ confirmed_on' = IF closed THEN NoneConfirmed ELSE confirmed_on
              /\ IF closed
                 THEN /\ bot_state' = "WAITING"
                      /\ last_trading_day' = None
                      /\ pc' = "poll_sleep"
                      /\ now' = now
                 ELSE /\ now' \in After(RetryDelay)
                      /\ pc' = "verify_closing_retry"
                      /\ UNCHANGED <<bot_state, last_trading_day>>
    /\ UNCHANGED <<call, schedule, is_running, venue, calls>>

\* VerifyClosingRetry resetting the trading day also when positions remain
VerifyClosingRetryResets ==
    /\ pc = "verify_closing_retry"
    /\ \E fetch \in Fetches :
          LET positions == get_current_positions(venue, fetch)
              closed    == ~has_positions(positions)
          IN  /\ cyc' = [cyc EXCEPT !.checks = Append(@, Check(fetch, positions, closed))]
              /\ accepted' = IF closed THEN NoneAccepted ELSE accepted
              /\ confirmed_on' = IF closed THEN NoneConfirmed ELSE confirmed_on
              /\ bot_state' = IF closed THEN "WAITING" ELSE "OPEN"
              /\ last_trading_day' = None
    /\ pc' = "poll_sleep"
    /\ UNCHANGED <<call, schedule, now, is_running, venue, calls>>

\* _verify_closing, the retry: WAITING and reset, or back to OPEN
VerifyClosingRetry ==
    /\ pc = "verify_closing_retry"
    /\ \E fetch \in Fetches :
          LET positions == get_current_positions(venue, fetch)
              closed    == ~has_positions(positions)
          IN  /\ cyc' = [cyc EXCEPT !.checks = Append(@, Check(fetch, positions, closed))]
              /\ accepted' = IF closed THEN NoneAccepted ELSE accepted
              /\ confirmed_on' = IF closed THEN NoneConfirmed ELSE confirmed_on
              /\ IF closed
                 THEN /\ bot_state' = "WAITING"
                      /\ last_trading_day' = None
                 ELSE /\ bot_state' = "OPEN"
                      /\ UNCHANGED last_trading_day
    /\ pc' = "poll_sleep"
    /\ UNCHANGED <<call, schedule, now, is_running, venue, calls>>

\* TradingBot.start: time.sleep(self.scheduler.get_next_check_interval())
PollSleep ==
    /\ pc = "poll_sleep"
    /\ now' \in After(get_next_check_interval(now, last_trading_day, schedule))
    /\ pc' = "cycle"
    /\ cyc' = NoCycle
    /\ calls' = << >>
    /\ UNCHANGED <<call, accepted, confirmed_on, schedule, is_running, bot_state,
                   last_trading_day, venue>>

RunningPcs ==
    {"cycle", "open_all", "verify_opening", "verify_opening_retry", "close_all",
     "verify_closing", "verify_closing_retry", "poll_sleep"}

\* KeyboardInterrupt, or sys.exit(0) in main.signal_handler on SIGINT/SIGTERM:
\* the loop is left and the finally clause calls TradingBot.stop
Shutdown ==
    /\ pc \in RunningPcs
    /\ is_running' = FALSE
    /\ pc' = "stopped"
    /\ cyc' = [NoCycle EXCEPT !.kind = "shutdown", !.start_state = bot_state,
                               !.day0 = last_trading_day]
    /\ calls' = << >>
    /\ UNCHANGED <<call, accepted, confirmed_on, schedule, now, bot_state, last_trading_day, venue>>

\* The process is started again: main() constructs a new TradingBot
Restart ==
    /\ pc = "stopped"
    /\ now' \in After(0)
    /\ pc' = "constructed"
    /\ bot_state' = "WAITING"
    /\ last_trading_day' = None
    /\ cyc' = NoCycle
    /\ calls' = << >>
    /\ accepted' = NoneAccepted
    /\ UNCHANGED <<call, confirmed_on, schedule, is_running, venue>>

Next ==
    \/ Start
    \/ StartFails
    \/ OpenTrigger
    \/ WaitingIdle
    \/ CloseTrigger
    \/ OpenIdle
    \/ OpenAll
    \/ VerifyOpening
    \/ VerifyOpeningRetry
    \/ CloseAll
    \/ VerifyClosing
    \/ VerifyClosingRetry
    \/ PollSleep
    \/ Shutdown
    \/ Restart

Spec == Init /\ [][Next]_vars

\* The engine with the accepted opening orders counted, started on a venue
\* without positions
InitExposure ==
    /\ schedule \in Schedules
    /\ now \in {t \in Instants : Date(t) = 1}
    /\ pc = "constructed"
    /\ is_running = FALSE
    /\ bot_state = "WAITING"
    /\ last_trading_day = None
    /\ venue = [m \in Markets |-> 0]
    /\ cyc = NoCycle
    /\ calls = << >>
    /\ accepted = [i \in DOMAIN Legs |-> "none"]
    /\ confirmed_on = NotKept
    /\ call = NoCall

SpecExposure == InitExposure /\ [][Next]_vars

\* The engine under the cross-midnight schedule with the day of the basket's
\* confirmation kept, started on a venue without positions
InitHold ==
    /\ schedule = [open_time |-> ParseTime(21, 0, 0), close_time |-> ParseTime(6, 0, 0)]
    /\ now \in {t \in Instants : Date(t) = 1}
    /\ pc = "constructed"
    /\ is_running = FALSE
    /\ bot_state = "WAITING"
    /\ last_trading_day = None
    /\ venue = [m \in Markets |-> 0]
    /\ cyc = NoCycle
    /\ calls = << >>
    /\ accepted = NotCounted
    /\ confirmed_on = None
    /\ call = NoCall

SpecHold == InitHold /\ [][Next]_vars

----------------------------------------------------------------------------
(* OrderManager.open_all_positions on its own, for any basket *)

\* Sequences over S of length at most n
RECURSIVE SeqsUpTo(_, _)
SeqsUpTo(S, n) ==
    IF n = 0 THEN {<< >>}
    ELSE LET shorter == SeqsUpTo(S, n - 1)
         IN  shorter \cup {Append(q, x) : q \in {r \in shorter : Len(r) = n - 1}, x \in S}

\* The pair_configs a basket is drawn from
BasketTargets == [pair : {"BTC-USD", "ETH-USD"}, target_size : {10}]

\* The part of the state the single-function specifications leave alone
EngineIdle ==
    /\ schedule = [open_time |-> ParseTime(9, 0, 0), close_time |-> ParseTime(17, 0, 0)]
    /\ now = SecondsPerDay + schedule.open_time
    /\ is_running = FALSE
    /\ last_trading_day = None
    /\ cyc = NoCycle
    /\ accepted = NotCounted
    /\ confirmed_on = NotKept

\* precisions is keyed by pair: the legs of one pair share what the (last)
\* precision request for that pair returned
SharedPrecision(legs, outs) ==
    \A i, j \in DOMAIN legs :
        legs[i].pair_config.pair = legs[j].pair_config.pair
            => (outs[i] = <<"noprec">> <=> outs[j] = <<"noprec">>)

\* A call of open_all_positions(long_pairs, short_pairs) is about to be made,
\* as _open_positions makes it: in state OPENING, with no position on the venue
InitOpenAll ==
    /\ EngineIdle
    /\ bot_state = "OPENING"
    /\ venue = [m \in Markets |-> 0]
    /\ calls = << >>
    /\ pc = "call"
    /\ call \in [fn : {"open_all_positions"},
                 long : SeqsUpTo(BasketTargets, MaxPerSide),
                 short : SeqsUpTo(BasketTargets, MaxPerSide),
                 ret : {[success |-> FALSE, leg_ok |-> << >>]}]

\* The call is made and returns
OpenAllCall ==
    /\ pc = "call"
    /\ call.fn = "open_all_positions"
    /\ \E prices_ok \in BOOLEAN,
          outs \in [DOMAIN LegsOf(call.long, call.short) -> LegOutcomes] :
          LET r == open_all_positions(call.long, call.short, prices_ok, outs,
                                      venue, bot_state)
          IN  /\ SharedPrecision(LegsOf(call.long, call.short), outs)
              /\ calls' = r.calls
              /\ venue' = r.venue
              /\ call' = [call EXCEPT !.ret = [success |-> r.success, leg_ok |-> r.leg_ok]]
    /\ pc' = "return"
    /\ UNCHANGED <<accepted, confirmed_on, schedule, now, is_running, bot_state,
                   last_trading_day, cyc>>

NextOpenAll == OpenAllCall

SpecOpenAll == InitOpenAll /\ [][NextOpenAll]_vars

----------------------------------------------------------------------------
(* PositionManager.validate_position_sizes on its own, for any basket and any
   positions *)

\* Signed sizes a position may have (0: none): the target at a mark of 100,
\* 1% and 2% above it, long or short
PositionSizes == {0, 10000, -10000, 10100, -10100, 10200}

\* The pair_configs a validated basket is drawn from: those of BasketTargets
\* and the same pairs with twice the target
ValidatedBasketTargets ==
    BasketTargets \cup [pair : {"BTC-USD", "ETH-USD"}, target_size : {20}]

\* The venue positions a snapshot is drawn from
PositionInputs ==
    {v \in [Markets -> PositionSizes] : v["SOL-USD"] = 0}

\* A call of validate_position_sizes(positions, long_pairs + short_pairs) is
\* about to be made, as _verify_opening and _initialize_state make it
InitValidate ==
    /\ EngineIdle
    /\ bot_state = "OPENING"
    /\ venue \in PositionInputs
    /\ calls = << >>
    /\ pc = "call"
    /\ \E mark \in MarkPrices :
          call \in [fn : {"validate_position_sizes"},
                    positions : {Snapshot(venue, mark)},
                    long : SeqsUpTo(ValidatedBasketTargets, MaxPerSide),
                    short : SeqsUpTo(ValidatedBasketTargets, MaxPerSide),
                    ret : {[is_valid |-> FALSE, results |-> << >>]}]

\* The call is made and returns (is_valid, results)
ValidateCall ==
    /\ pc = "call"
    /\ call.fn = "validate_position_sizes"
    /\ LET expected_pairs == call.long \o call.short
       IN  call' = [call EXCEPT !.ret =
                      [is_valid |-> validate_position_sizes(call.positions, expected_pairs),
                       results  |-> IF expected_pairs = << >> THEN << >>
                                    ELSE ValidationResults(call.positions, expected_pairs)]]
    /\ pc' = "return"
    /\ UNCHANGED <<accepted, confirmed_on, schedule, now, is_running, bot_state,
                   last_trading_day, venue, cyc, calls>>

NextValidate == ValidateCall

SpecValidate == InitValidate /\ [][NextValidate]_vars

----------------------------------------------------------------------------
(* The Scheduler's functions on their own, at any time and trading day *)

\* The schedules the functions are studied under: those of the engine and a
\* same-day one whose triggers lie 30 s from midnight
SchedulerSchedules ==
    Schedules \cup {[open_time |-> ParseTime(0, 0, 30), close_time |-> ParseTime(23, 59, 30)]}

\* Offsets (seconds) from a trigger at which the clock is read: the edges of
\* the 60 s window and of the 5 minute band, and the second on either side
SchedulerOffsets == {-301, -300, -61, -60, -1, 0, 1, 60, 61, 300, 301}

\* Times of day read besides: midnight, noon, the last second of the day
SchedulerTimes == {ParseTime(0, 0, 0), ParseTime(12, 0, 0), ParseTime(23, 59, 59)}

\* datetime.now(Config.TIMEZONE) as the functions may read it
SchedulerInstants(sch) ==
    { d * SecondsPerDay + tod + k :
        d \in 1..MaxDay, tod \in {sch.open_time, sch.close_time}, k \in SchedulerOffsets }
    \cup { d * SecondsPerDay + tod : d \in 1..MaxDay, tod \in SchedulerTimes }

\* A Scheduler with any trading day, or none, is asked one question
InitScheduler ==
    /\ schedule \in SchedulerSchedules
    /\ now \in SchedulerInstants(schedule)
    /\ last_trading_day \in {None} \cup 0..MaxDay
    /\ is_running = FALSE
    /\ bot_state = "WAITING"
    /\ venue = [m \in Markets |-> 0]
    /\ cyc = NoCycle
    /\ calls = << >>
    /\ accepted = NotCounted
    /\ confirmed_on = NotKept
    /\ pc = "call"
    /\ call \in [fn : {"should_open_positions", "should_close_positions",
                       "get_next_check_interval"},
                 ret : {"-"}]

ShouldOpenCall ==
    /\ pc = "call"
    /\ call.fn = "should_open_positions"
    /\ call' = [call EXCEPT !.ret = should_open_positions(now, last_trading_day, schedule)]
    /\ pc' = "return"
    /\ UNCHANGED <<accepted, confirmed_on, schedule, now, is_running, bot_state,
                   last_trading_day, venue, cyc, calls>>

ShouldCloseCall ==
    /\ pc = "call"
    /\ call.fn = "should_close_positions"
    /\ call' = [call EXCEPT !.ret = should_close_positions(now, last_trading_day, schedule)]
    /\ pc' = "return"
    /\ UNCHANGED <<accepted, confirmed_on, schedule, now, is_running, bot_state,
                   last_trading_day, venue, cyc, calls>>

NextCheckIntervalCall ==
    /\ pc = "call"
    /\ call.fn = "get_next_check_interval"
    /\ call' = [call EXCEPT !.ret = get_next_check_interval(now, last_trading_day, schedule)]
    /\ pc' = "return"
    /\ UNCHANGED <<accepted, confirmed_on, schedule, now, is_running, bot_state,
                   last_trading_day, venue, cyc, calls>>

NextScheduler ==
    \/ ShouldOpenCall
    \/ ShouldCloseCall
    \/ NextCheckIntervalCall

SpecScheduler == InitScheduler /\ [][NextScheduler]_vars

----------------------------------------------------------------------------
(* OrderManager.quantize on its own: a price and a price step, in cents *)

MaxValue == 300

MaxStep == 260

InitQuantize ==
    /\ EngineIdle
    /\ bot_state = "WAITING"
    /\ venue = [m \in Markets |-> 0]
    /\ calls = << >>
    /\ pc = "call"
    /\ call \in [fn : {"quantize"}, value : 0..MaxValue, step : 1..MaxStep, ret : {-1}]

QuantizeCall ==
    /\ pc = "call"
    /\ call.fn = "quantize"
    /\ call' = [call EXCEPT !.ret = quantize(call.value, 1, call.step, CentsPerDollar)]
    /\ pc' = "return"
    /\ UNCHANGED <<accepted, confirmed_on, schedule, now, is_running, bot_state,
                   last_trading_day, venue,
                   cyc, calls>>

NextQuantize == QuantizeCall

SpecQuantize == InitQuantize /\ [][NextQuantize]_vars

----------------------------------------------------------------------------
(* The sizing of one opening leg on its own: the target, the quote and the
   tradingConfig of the market vary *)

MaxTarget == 25

\* Quotes (cents): the engine's, and a market trading at 5 dollars
SizingQuotes == {BestAsk, 5 * CentsPerDollar}

\* tradingConfig of the markets: the engine's (0.001 / 0.001 / 0.01), a finer
\* size step with a coarser tick (0.0001 / 0.0001 / 0.1), whole units
\* (1 / 1 / 0.01) and a step of one and a half units (1.5 / 1.5 / 0.01)
SizingPrecisions ==
    { MarketPrecision,
      [min_order_size |-> 10, min_order_size_change |-> 10, min_price_change |-> 10],
      [min_order_size |-> SizeUnit, min_order_size_change |-> SizeUnit,
       min_price_change |-> 1],
      [min_order_size |-> 3 * (SizeUnit \div 2), min_order_size_change |-> 3 * (SizeUnit \div 2),
       min_price_change |-> 1] }

InitSizing ==
    /\ EngineIdle
    /\ bot_state = "WAITING"
    /\ venue = [m \in Markets |-> 0]
    /\ calls = << >>
    /\ pc = "call"
    /\ call \in [fn : {"open_leg_sizing"}, side : {"BUY", "SELL"}, target_size : 1..MaxTarget,
                 quote : SizingQuotes, precision : SizingPrecisions, price : {0}, qty : {0}]

\* The leg computes the price and the quantity it submits
SizingCall ==
    /\ pc = "call"
    /\ call.fn = "open_leg_sizing"
    /\ LET price == OpenPriceAt(call.side, call.quote, call.quote, call.precision)
       IN  call' = [call EXCEPT !.price = price,
                                !.qty = OpenQtyAt(call.target_size, price, call.precision)]
    /\ pc' = "return"
    /\ UNCHANGED <<accepted, confirmed_on, schedule, now, is_running, bot_state,
                   last_trading_day, venue,
                   cyc, calls>>

NextSizing == SizingCall

SpecSizing == InitSizing /\ [][NextSizing]_vars

----------------------------------------------------------------------------
(* The closing of one position on its own: the reported size and the
   tradingConfig of the market vary *)

MaxCloseSize == 120

InitCloseLeg ==
    /\ EngineIdle
    /\ bot_state = "CLOSING"
    /\ venue = [m \in Markets |-> 0]
    /\ calls = << >>
    /\ pc = "call"
    /\ call \in [fn : {"close_leg"}, size : 0..MaxCloseSize, side : {"LONG", "SHORT"},
                 precision : SizingPrecisions, orders : {<< >>}]

\* The loop body runs for the position and the order, if any, is filled
CloseLegCall ==
    /\ pc = "call"
    /\ call.fn = "close_leg"
    /\ LET position_data == [size |-> IF call.side = "LONG" THEN call.size ELSE -call.size,
                             side |-> call.side, mark_price |-> 100]
       IN  call' = [call EXCEPT !.orders =
                      CloseLegAt("BTC-USD", position_data, BestAsk, BestBid, call.precision,
                                 "filled", bot_state).calls]
    /\ pc' = "return"
    /\ UNCHANGED <<accepted, confirmed_on, schedule, now, is_running, bot_state,
                   last_trading_day, venue, cyc, calls>>

NextCloseLeg == CloseLegCall

SpecCloseLeg == InitCloseLeg /\ [][NextCloseLeg]_vars

----------------------------------------------------------------------------
(* The main loop while the bot stays in WAITING: every cycle evaluates
   should_open_positions and returns at once (a triggered open fails before
   any order is placed), and every sleep lasts exactly the check interval *)

\* The schedules polled: an open time in the middle of the day and open times
\* within 60 s of midnight, on either side
PollSchedules ==
    [open_time : {ParseTime(0, 0, 0), ParseTime(0, 0, 30), ParseTime(0, 0, 59),
                  ParseTime(0, 1, 0), ParseTime(9, 0, 0), ParseTime(23, 59, 0),
                  ParseTime(23, 59, 30), ParseTime(23, 59, 59)},
     close_time : {ParseTime(17, 0, 0)}]

\* Seconds before the first midnight at which the loop may start
PollLead == 600

\* The loop starts on any second of a minute, ten minutes before day 1
InitPoll ==
    /\ schedule \in PollSchedules
    /\ now \in {SecondsPerDay - PollLead + k : k \in 0..(LongInterval - 1)}
    /\ last_trading_day = None
    /\ is_running = TRUE
    /\ bot_state = "WAITING"
    /\ venue = [m \in Markets |-> 0]
    /\ cyc = NoCycle
    /\ calls = << >>
    /\ accepted = NotCounted
    /\ confirmed_on = NotKept
    /\ pc = "cycle"
    /\ call = [fn |-> "poll", evaluated_at |-> None, triggered_on |-> {}]

\* The last evaluation the loop makes ends within two minutes after MaxDay
PollEnd == (MaxDay + 1) * SecondsPerDay + 2 * LongInterval

\* One iteration of the loop in which should_open_positions is False
PollIdle ==
    /\ pc = "cycle"
    /\ call.fn = "poll"
    /\ bot_state = "WAITING"
    /\ now <= PollEnd
    /\ ~should_open_positions(now, last_trading_day, schedule)
    /\ call' = [call EXCEPT !.evaluated_at = now]
    /\ now' = now + get_next_check_interval(now, last_trading_day, schedule)
    /\ UNCHANGED <<accepted, confirmed_on, schedule, pc, is_running, bot_state,
                   last_trading_day, venue, cyc, calls>>

\* One iteration in which should_open_positions is True and _open_positions
\* goes back to WAITING without having slept
PollTriggered ==
    /\ pc = "cycle"
    /\ call.fn = "poll"
    /\ bot_state = "WAITING"
    /\ now <= PollEnd
    /\ should_open_positions(now, last_trading_day, schedule)
    /\ call' = [call EXCEPT !.evaluated_at = now,
                            !.triggered_on = @ \cup {Date(now)}]
    /\ now' = now + get_next_check_interval(now, last_trading_day, schedule)
    /\ UNCHANGED <<accepted, confirmed_on, schedule, pc, is_running, bot_state,
                   last_trading_day, venue, cyc, calls>>

NextPoll ==
    \/ PollIdle
    \/ PollTriggered

SpecPoll == InitPoll /\ [][NextPoll]_vars

----------------------------------------------------------------------------
(* The legacy monolithic bot (src/trading_bot.py): long BTC-USD, short
   ETH-USD, a flag positions_opened_today and a loop that asks
   should_open_positions, else should_close_positions *)

\* The intervals of get_next_check_interval and the band of
\* is_near_trading_time (minutes)
LegacyShortInterval == 30
LegacyLongInterval == 600
LegacyNearMinutes == 5

\* The sleeps of open_positions and close_positions before they read the
\* positions again, of open_positions after closing an incomplete basket, and
\* of _place_order_with_retry between two attempts
LegacySettleDelay == 5
LegacyRecloseDelay == 10
LegacyRetryDelay == 2

\* The size of either leg on the venue once its order is filled
LegacyLegSize == 10000

\* current_time.hour * 60 + current_time.minute
MinuteOfDay(t) == TimeOfDay(t) \div 60

\* TradingBot.should_open_positions of the legacy bot
legacy_should_open_positions(t, positions_opened_today, sch) ==
    IF positions_opened_today
    THEN FALSE
    ELSE MinuteOfDay(t) >= sch.open_time \div 60

\* TradingBot.should_close_positions of the legacy bot
legacy_should_close_positions(t, sch) ==
    MinuteOfDay(t) >= sch.close_time \div 60

\* TradingBot.is_near_trading_time of the legacy bot
legacy_is_near_trading_time(t, sch) ==
    \/ Abs(MinuteOfDay(t) - sch.open_time \div 60) <= LegacyNearMinutes
    \/ Abs(MinuteOfDay(t) - sch.close_time \div 60) <= LegacyNearMinutes

\* TradingBot.get_next_check_interval of the legacy bot
legacy_get_next_check_interval(t, positions_opened_today, sch) ==
    IF positions_opened_today THEN LegacyLongInterval
    ELSE IF legacy_is_near_trading_time(t, sch) THEN LegacyShortInterval
    ELSE LegacyLongInterval

\* The outcomes of close_positions: the price request raises, or the orders
\* are sent and fill or do not
LegacyCloseOutcomes == {"error", "filled", "unfilled"}

\* TradingBot.close_positions of the legacy bot on the venue v: the venue and
\* the flag it leaves, and the seconds it takes
legacy_close_positions(v, positions_opened_today, outcome) ==
    IF v["BTC-USD"] = 0 /\ v["ETH-USD"] = 0
    THEN [venue |-> v, flag |-> positions_opened_today, took |-> 0]
    ELSE IF outcome = "error"
    THEN [venue |-> v, flag |-> positions_opened_today, took |-> 0]
    ELSE [venue |-> IF outcome = "filled"
                    THEN [m \in Markets |->
                            IF m = "ETH-USD" \/ (m = "BTC-USD" /\ v[m] > 0) THEN 0 ELSE v[m]]
                    ELSE v,
          flag  |-> FALSE,
          took  |-> LegacySettleDelay]

\* The outcomes of open_positions once it goes on to place orders: the price
\* request raises, the BTC order fails three times, the ETH order does, the
\* orders are sent but only BTC fills, or both fill
LegacyOpenOutcomes == {"error", "btc_fail", "eth_fail", "unverified", "ok"}

\* open_positions from the price request on, the venue being flat
LegacyPlaceOrders(v, positions_opened_today, outcome, close_outcome) ==
    LET long_only == [v EXCEPT !["BTC-USD"] = LegacyLegSize]
        both      == [long_only EXCEPT !["ETH-USD"] = -LegacyLegSize]
    IN  CASE outcome = "error" ->
                [venue |-> v, flag |-> positions_opened_today, took |-> 0, opened |-> FALSE]
          [] outcome = "btc_fail" ->
                [venue |-> v, flag |-> positions_opened_today,
                 took |-> 2 * LegacyRetryDelay, opened |-> FALSE]
          [] outcome = "eth_fail" ->
                LET c == legacy_close_positions(long_only, positions_opened_today,
                                                close_outcome)
                IN  [venue |-> c.venue, flag |-> c.flag,
                     took |-> 2 * LegacyRetryDelay + c.took, opened |-> FALSE]
          [] outcome = "unverified" ->
                LET c == legacy_close_positions(long_only, positions_opened_today,
                                                close_outcome)
                IN  [venue |-> c.venue, flag |-> c.flag,
                     took |-> LegacySettleDelay + c.took, opened |-> FALSE]
          [] OTHER ->
                [venue |-> both, flag |-> TRUE, took |-> LegacySettleDelay, opened |-> TRUE]

\* TradingBot.open_positions of the legacy bot: the venue and the flag it
\* leaves, the seconds it takes and whether it opened the basket
legacy_open_positions(v, positions_opened_today, outcome, close_outcome) ==
    LET has_btc_long  == v["BTC-USD"] > 0
        has_eth_short == v["ETH-USD"] < 0
    IN  IF has_btc_long /\ has_eth_short
        THEN [venue |-> v, flag |-> TRUE, took |-> 0, opened |-> FALSE]
        ELSE IF has_btc_long \/ has_eth_short
        THEN LET c == legacy_close_positions(v, positions_opened_today, close_outcome)
             IN  IF c.venue["BTC-USD"] # 0 \/ c.venue["ETH-USD"] # 0
                 THEN [venue |-> c.venue, flag |-> c.flag,
                       took |-> c.took + LegacyRecloseDelay, opened |-> FALSE]
                 ELSE LET r == LegacyPlaceOrders(c.venue, c.flag, outcome, "filled")
                      IN  [r EXCEPT !.took = @ + c.took + LegacyRecloseDelay]
        ELSE LegacyPlaceOrders(v, positions_opened_today, outcome, close_outcome)

\* Minutes of the first day on which the legacy bot may be started
LegacyStarts == 5

\* The legacy bot enters its loop at the start of day 1, the venue flat
InitLegacy ==
    /\ schedule \in Schedules
    /\ now \in {SecondsPerDay + 60 * k : k \in 0..(LegacyStarts - 1)}
    /\ last_trading_day = None
    /\ is_running = TRUE
    /\ bot_state = "WAITING"
    /\ venue = [m \in Markets |-> 0]
    /\ cyc = NoCycle
    /\ calls = << >>
    /\ accepted = NotCounted
    /\ confirmed_on = NotKept
    /\ pc = "legacy_loop"
    /\ call = [fn |-> "legacy", positions_opened_today |-> FALSE,
               opened_on |-> None, opens |-> 0, closed_on |-> None]

\* Days over which the loop of the legacy bot is followed
LegacyDays == 1

\* The loop of the legacy bot stops being followed after day LegacyDays
LegacyEnd == (LegacyDays + 1) * SecondsPerDay

\* What the loop remembers of an open_positions that returned r at time t
LegacyOpened(r, t) ==
    [call EXCEPT !.positions_opened_today = r.flag,
                 !.opened_on = IF r.opened THEN Date(t) ELSE @,
                 !.opens = IF ~r.opened THEN @
                           ELSE IF call.opened_on = Date(t) THEN 2 ELSE 1]

\* start, the branch of should_open_positions: open_positions runs
LegacyOpen ==
    /\ pc = "legacy_loop"
    /\ call.fn = "legacy"
    /\ now < LegacyEnd
    /\ legacy_should_open_positions(now, call.positions_opened_today, schedule)
    /\ \E outcome \in LegacyOpenOutcomes, close_outcome \in LegacyCloseOutcomes :
          LET r == legacy_open_positions(venue, call.positions_opened_today,
                                         outcome, close_outcome)
          IN  /\ venue' = r.venue
              /\ now' = now + r.took
              /\ call' = LegacyOpened(r, now)
    /\ pc' = "legacy_sleep"
    /\ UNCHANGED <<accepted, confirmed_on, schedule, is_running, bot_state,
                   last_trading_day, cyc, calls>>

\* start, the branch of should_close_positions: close_positions runs
LegacyClose ==
    /\ pc = "legacy_loop"
    /\ call.fn = "legacy"
    /\ now < LegacyEnd
    /\ ~legacy_should_open_positions(now, call.positions_opened_today, schedule)
    /\ legacy_should_close_positions(now, schedule)
    /\ \E close_outcome \in LegacyCloseOutcomes :
          LET c == legacy_close_positions(venue, call.positions_opened_today,
                                          close_outcome)
          IN  /\ venue' = c.venue
              /\ now' = now + c.took
              /\ call' = [call EXCEPT !.positions_opened_today = c.flag,
                                      !.closed_on = Date(now)]
    /\ pc' = "legacy_sleep"
    /\ UNCHANGED <<accepted, confirmed_on, schedule, is_running, bot_state,
                   last_trading_day, cyc, calls>>

\* start, the last branch: neither trigger holds
LegacyIdle ==
    /\ pc = "legacy_loop"
    /\ call.fn = "legacy"
    /\ now < LegacyEnd
    /\ ~legacy_should_open_positions(now, call.positions_opened_today, schedule)
    /\ ~legacy_should_close_positions(now, schedule)
    /\ pc' = "legacy_sleep"
    /\ UNCHANGED <<call, accepted, confirmed_on, schedule, now, is_running, bot_state,
                   last_trading_day, venue, cyc, calls>>

\* start: time.sleep(self.get_next_check_interval())
LegacySleep ==
    /\ pc = "legacy_sleep"
    /\ now' = now + legacy_get_next_check_interval(now, call.positions_opened_today,
                                                   schedule)
    /\ pc' = "legacy_loop"
    /\ UNCHANGED <<call, accepted, confirmed_on, schedule, is_running, bot_state,
                   last_trading_day, venue, cyc, calls>>

NextLegacy ==
    \/ LegacyOpen
    \/ LegacyClose
    \/ LegacyIdle
    \/ LegacySleep

SpecLegacy == InitLegacy /\ [][NextLegacy]_vars

----------------------------------------------------------------------------
(* Properties *)

\* A cycle has run to its end: the loop is about to sleep
CycleDone(kind) == pc = "poll_sleep" /\ cyc.kind = kind

\* A verification saw the venue's answer and it held no position above epsilon
SawNoPositions(check) == check.ok /\ ~has_positions(check.positions)

\* C1: a close attempt ends in WAITING, or with the trading day changed, only
\* if one of its (at most two) verifications received a position snapshot
\* from the venue and that snapshot held no position with |size| > 0.00001.
C1_ClosedOnlyOnEmptySnapshot ==
    CycleDone("close") /\ (bot_state = "WAITING" \/ last_trading_day # cyc.day0)
        => \E i \in DOMAIN cyc.checks : i <= 2 /\ SawNoPositions(cyc.checks[i])

\* The last placement of every leg of the basket was accepted
OpenLegOk(p) ==
    \E i \in DOMAIN calls :
        /\ calls[i].op = "open" /\ calls[i].market = p /\ calls[i].result # "rejected"
        /\ \A j \in DOMAIN calls : (calls[j].op = "open" /\ calls[j].market = p) => j <= i

AllLegsOk == \A k \in DOMAIN Legs : OpenLegOk(Legs[k].pair_config.pair)

\* The validator accepts the positions of the first or the second verification
AcceptedOnce ==
    \E i \in DOMAIN cyc.checks :
        i <= 2 /\ validate_position_sizes(cyc.checks[i].positions, all_expected_pairs)

\* C2: an open attempt started from WAITING ends in OPEN iff every leg's
\* placement was reported a success and the validator accepted the first or
\* the retried snapshot; when it ends in OPEN the trading day is today's date.
C2_OpenIffPlacedAndValidated ==
    (CycleDone("open") /\ cyc.start_state = "WAITING")
        => /\ bot_state = "OPEN" <=> (AllLegsOk /\ AcceptedOnce)
           /\ bot_state = "OPEN" => last_trading_day = Date(now)

\* An open attempt reached OPEN on the retried verification
C2_Witness ==
    /\ CycleDone("open") /\ bot_state = "OPEN"
    /\ Len(cyc.checks) = 2 /\ ~cyc.checks[1].pass
    /\ last_trading_day = Date(now)

\* The two verifications of an open attempt both failed
BothValidationsFailed ==
    /\ Len(cyc.checks) = 2
    /\ ~validate_position_sizes(cyc.checks[1].positions, all_expected_pairs)
    /\ ~validate_position_sizes(cyc.checks[2].positions, all_expected_pairs)

\* C3: an open attempt validates the basket at most twice, the second time
\* only after a failed first; when both fail the attempt ends in WAITING with
\* the trading day unset.
C3_AtMostOneRetry ==
    cyc.kind = "open"
        => /\ Len(cyc.checks) <= 2
           /\ Len(cyc.checks) = 2 =>
                 ~validate_position_sizes(cyc.checks[1].positions, all_expected_pairs)
           /\ (pc = "poll_sleep" /\ BothValidationsFailed)
                 => (bot_state = "WAITING" /\ last_trading_day = None)

\* An open attempt whose two validations failed has ended
C3_Witness == CycleDone("open") /\ BothValidationsFailed /\ bot_state = "WAITING"

\* Close verification found positions on the first attempt and on the retry
StillOpenAfterRetry ==
    /\ Len(cyc.checks) = 2
    /\ has_positions(cyc.checks[1].positions)
    /\ has_positions(cyc.checks[2].positions)

\* C4: when close_all_positions reports failure, or close verification still
\* finds positions on its retry, the close attempt ends in OPEN with the
\* trading day as it was before the attempt, and set.
C4_FailedCloseRevertsToOpen ==
    (CycleDone("close") /\ (cyc.result = "fail" \/ StillOpenAfterRetry))
        => /\ bot_state = "OPEN"
           /\ last_trading_day = cyc.day0
           /\ last_trading_day # None

\* A close attempt ended with positions still reported on the retry
C4_Witness == CycleDone("close") /\ StillOpenAfterRetry /\ bot_state = "OPEN"

\* C5: whenever bot_state is OPEN the trading day is set.
C5_OpenImpliesTradingDay == bot_state = "OPEN" => last_trading_day # None

\* OPEN was reached by startup reconciliation and a failed close came back to it
C5_Witness ==
    /\ bot_state = "OPEN" /\ CycleDone("close") /\ cyc.result = "fail"
    /\ last_trading_day # None

\* The changes of bot_state the state machine makes
Transitions ==
    { <<"WAITING", "OPENING">>, <<"OPENING", "OPEN">>, <<"OPENING", "WAITING">>,
      <<"OPEN", "CLOSING">>, <<"CLOSING", "WAITING">>, <<"CLOSING", "OPEN">> }

\* C6: once the loop runs, every change of bot_state is one of
\* WAITING->OPENING, OPENING->OPEN, OPENING->WAITING, OPEN->CLOSING,
\* CLOSING->WAITING, CLOSING->OPEN.
C6_OnlyListedTransitions ==
    [][(pc \in RunningPcs /\ pc' \in RunningPcs /\ bot_state' # bot_state)
          => <<bot_state, bot_state'>> \in Transitions]_vars

\* A close attempt has gone OPEN -> CLOSING -> OPEN on a later day than the
\* process started
C6_Witness ==
    /\ CycleDone("close") /\ bot_state = "OPEN" /\ Len(cyc.checks) = 2
    /\ Date(now) > 1

OpsOf(op) == {i \in DOMAIN calls : calls[i].op = op}

\* C7: opening orders are placed in state OPENING only and closing orders in
\* state CLOSING only; no cycle places both; an open is launched from WAITING
\* and a close from OPEN, and a cycle begins in WAITING or OPEN only.
C7_OrdersOnlyInTheirState ==
    /\ \A i \in OpsOf("open") : calls[i].st = "OPENING"
    /\ \A i \in OpsOf("close") : calls[i].st = "CLOSING"
    /\ OpsOf("open") = {} \/ OpsOf("close") = {}
    /\ pc = "open_all" => (bot_state = "OPENING" /\ cyc.start_state = "WAITING")
    /\ pc = "close_all" => (bot_state = "CLOSING" /\ cyc.start_state = "OPEN")
    /\ pc = "cycle" => bot_state \in {"WAITING", "OPEN"}

\* Opening orders have been placed and the attempt is not resolved yet
C7_Witness == pc = "verify_opening" /\ OpsOf("open") # {} /\ bot_state = "OPENING"

\* C8: OPENING is entered from WAITING, and the order manager called, only
\* when should_open_positions() is true at that moment; a WAITING cycle in
\* which it is false makes no order or cancel call and stays in WAITING.
C8_OpenOnlyOnTrigger ==
    /\ pc = "open_all" => should_open_positions(now, last_trading_day, schedule)
    /\ (cyc.kind = "open" /\ cyc.start_state = "WAITING") => cyc.trigger
    /\ (cyc.kind = "idle" /\ cyc.start_state = "WAITING")
          => /\ ~should_open_positions(now, last_trading_day, schedule)
             /\ calls = << >>
             /\ bot_state = "WAITING"

\* The basket has been placed in a cycle the scheduler triggered
C8_Witness ==
    /\ cyc.kind = "open" /\ cyc.trigger /\ OpsOf("open") # {}
    /\ pc = "verify_opening"

CloseMarkets == {calls[i].market : i \in OpsOf("close")}

\* C9: CLOSING is entered from OPEN only when should_close_positions() is true
\* at that moment, and when close_all_positions returns True it has placed a
\* closing order for every market of the snapshot it was handed, in the
\* basket or not.
C9_CloseOnTriggerAllMarkets ==
    /\ pc = "close_all"
          => /\ cyc.start_state = "OPEN"
             /\ should_close_positions(now, last_trading_day, schedule)
    /\ (bot_state = "CLOSING" /\ pc \in RunningPcs)
          => (cyc.kind = "close" /\ cyc.start_state = "OPEN")
    /\ (cyc.kind = "close" /\ cyc.result = "ok") => CloseMarkets = DOMAIN cyc.snapshot

\* A close placed an order for a market that is not in the basket
C9_Witness ==
    /\ cyc.kind = "close" /\ cyc.result = "ok"
    /\ "SOL-USD" \in DOMAIN cyc.snapshot /\ "SOL-USD" \in CloseMarkets

\* C10: right after startup reconciliation bot_state is OPEN, with the trading
\* day marked, iff the venue's positions were received and validate against
\* the basket; otherwise it is WAITING with the trading day unset. Startup
\* makes no order and no cancel call.
C10_StartupReconciliation ==
    cyc.kind = "startup"
        => LET validates ==
                   /\ cyc.snapshot_ok
                   /\ validate_position_sizes(cyc.snapshot, all_expected_pairs)
           IN  /\ cyc.snapshot_ok => \E mark \in MarkPrices : cyc.snapshot = Snapshot(venue, mark)
               /\ bot_state = "OPEN" <=> validates
               /\ validates => last_trading_day \in {Date(now), Date(now) - 1}
               /\ ~validates => (bot_state = "WAITING" /\ last_trading_day = None)
               /\ \A i \in DOMAIN calls : calls[i].op = "leverage"
               /\ calls # << >>

\* Startup found a valid basket
C10_Witness == cyc.kind = "startup" /\ bot_state = "OPEN" /\ last_trading_day # None

\* Startup reconciliation has just validated the basket
StartupFoundBasket == pc = "cycle" /\ cyc.kind = "startup" /\ bot_state = "OPEN"

\* ... under a cross-midnight schedule, at a time of day at or after close_time
StartupPastClose ==
    /\ StartupFoundBasket
    /\ schedule.close_time < schedule.open_time
    /\ TimeOfDay(now) >= schedule.close_time

\* C11: when startup reconciliation validates the basket the trading day is
\* yesterday if close_time < open_time and today otherwise; so under a
\* cross-midnight schedule a basket found at or after close_time is due for
\* closing at once, and the first cycle after startup (unless the process is
\* stopped first) is the close.
C11_StartupBackdatesCrossMidnight ==
    /\ [](StartupFoundBasket =>
             last_trading_day = IF schedule.close_time < schedule.open_time
                                THEN Date(now) - 1 ELSE Date(now))
    /\ [](StartupPastClose => should_close_positions(now, last_trading_day, schedule))
    /\ [][(StartupPastClose /\ is_running')
             => (bot_state' = "CLOSING" /\ pc' = "close_all" /\ cyc'.kind = "close"
                 /\ now' = now)]_vars

\* A basket was found at startup after the close time of a cross-midnight
\* schedule, and the trading day is yesterday
C11_Witness ==
    /\ StartupPastClose
    /\ last_trading_day = Date(now) - 1
    /\ should_close_positions(now, last_trading_day, schedule)

\* The calls of a shutdown sweep: a cancel-all first, then a closing order for
\* every market in which the venue holds a position
SweepMade ==
    /\ calls # << >>
    /\ calls[1].op = "cancel"
    /\ \A m \in Markets :
          Abs(venue[m]) > Epsilon
              => \E i \in DOMAIN calls : i > 1 /\ calls[i].op = "close" /\ calls[i].market = m

\* C12: when the engine has shut down (KeyboardInterrupt, SIGINT/SIGTERM) it
\* has made, before exit, a sweep that first cancels all orders and then
\* closes all positions.
C12_ShutdownSweeps == (pc = "stopped" /\ cyc.kind = "shutdown") => SweepMade

\* Something went wrong in the current cycle: open/close_all_positions
\* returned False, a position request failed, a verification did not pass, or
\* the venue rejected an order
CycleFailed ==
    \/ cyc.result = "fail"
    \/ \E i \in DOMAIN cyc.checks : ~cyc.checks[i].ok \/ ~cyc.checks[i].pass
    \/ \E i \in DOMAIN calls : calls[i].result = "rejected"

\* How far a cycle has got
Rank ==
    [p \in RunningPcs |->
        CASE p = "cycle" -> 0
          [] p \in {"open_all", "close_all"} -> 1
          [] p \in {"verify_opening", "verify_closing"} -> 2
          [] p \in {"verify_opening_retry", "verify_closing_retry"} -> 3
          [] p = "poll_sleep" -> 4]

\* A step of the loop itself, not the arrival of an interrupt or a signal
LoopStep == pc \in RunningPcs /\ cyc'.kind # "shutdown"

\* C13: no failure in a trading cycle (failed venue call, rejected order,
\* failed validation, exception in a leg) stops the loop: a step of a cycle
\* leaves is_running true and moves the cycle on, a failed cycle ends at the
\* poll sleep with is_running true, and the poll sleep is followed by the next
\* cycle, at least the poll interval later.
C13_FailuresKeepLoopRunning ==
    /\ [](pc \in RunningPcs => is_running)
    /\ []((CycleFailed /\ pc \in RunningPcs) => is_running)
    /\ [][LoopStep => (pc' \in RunningPcs /\ is_running')]_vars
    /\ [][(LoopStep /\ pc # "poll_sleep") => Rank[pc'] > Rank[pc]]_vars
    /\ [][(LoopStep /\ pc = "poll_sleep")
             => /\ pc' = "cycle"
                /\ now' >= now + get_next_check_interval(now, last_trading_day, schedule)]_vars

\* An open in which the venue rejected an order and open_all_positions
\* returned False has ended at the poll sleep with the loop still running
C13_Witness ==
    /\ pc = "poll_sleep" /\ is_running /\ CycleFailed
    /\ cyc.kind = "open" /\ cyc.result = "fail"
    /\ \E i \in DOMAIN calls : calls[i].result = "rejected"

\* C14: a position request that fails during close verification is not taken
\* for a snapshot with no positions: the verification does not pass on it,
\* the state does not move to WAITING and the trading day is not reset.
C14_FailedFetchIsNotEmpty ==
    cyc.kind = "close"
        => \A i \in DOMAIN cyc.checks :
              ~cyc.checks[i].ok
                  => /\ ~cyc.checks[i].pass
                     /\ bot_state # "WAITING"
                     /\ last_trading_day = cyc.day0

\* The placement attempts of the current cycle for the opening leg of market m
OpenAttempts(m) == SelectSeq(calls, LAMBDA c : c.op = "open" /\ c.market = m)

\* C15: in one open_all_positions every leg is placed at most twice; the
\* second attempt is made iff the first failed, with the same side, quantity
\* and price, and there is no third.
C15_AtMostTwoAttempts ==
    \A k \in DOMAIN Legs :
        LET a == OpenAttempts(Legs[k].pair_config.pair)
        IN  /\ Len(a) <= 2
            /\ Len(a) = 2 <=> (Len(a) >= 1 /\ a[1].result = "rejected")
            /\ Len(a) = 2 => /\ a[2].side = a[1].side
                             /\ a[2].qty = a[1].qty
                             /\ a[2].price = a[1].price
                             /\ a[2].side = Legs[k].side

\* One leg was rejected twice and the other was accepted at once
C15_Witness ==
    /\ Len(OpenAttempts("BTC-USD")) = 2
    /\ OpenAttempts("BTC-USD")[2].result = "rejected"
    /\ Len(OpenAttempts("ETH-USD")) = 1
    /\ OpenAttempts("ETH-USD")[1].result = "filled"

\* The placement attempts for leg k among the calls cs
LegAttempts(cs, k) ==
    SelectSeq(cs, LAMBDA c : c.op = "open" /\ c.market = Legs[k].pair_config.pair)

\* C16 for the configured basket, whose pairs are distinct: in
\* open_all_positions a leg that fails (rejected also on its retry, or raising
\* before any order) does not keep the other legs from being placed, and True
\* is returned only if the last placement of every leg was accepted; when
\* False is returned the open ends in WAITING with no validation run and the
\* trading day not marked.
C16_FailedLegDoesNotStopOthers ==
    /\ pc = "open_all"
          => \A outs \in [DOMAIN Legs -> LegOutcomes] :
                LET r == open_all_positions(long_pairs, short_pairs, TRUE, outs,
                                            venue, bot_state)
                IN  /\ \A k \in DOMAIN Legs :
                          outs[k] # <<"noprec">>
                              => Len(LegAttempts(r.calls, k)) = Len(outs[k])
                    /\ r.success
                          => \A k \in DOMAIN Legs :
                                LET a == LegAttempts(r.calls, k)
                                IN  Len(a) > 0 /\ a[Len(a)].result # "rejected"
    /\ (cyc.kind = "open" /\ cyc.result = "ok") => AllLegsOk
    /\ (cyc.kind = "open" /\ cyc.result = "fail")
          => /\ pc = "poll_sleep"
             /\ bot_state = "WAITING"
             /\ cyc.checks = << >>
             /\ last_trading_day = None

\* The first leg was rejected twice, the second was still placed and filled,
\* and the open ended in WAITING with nothing validated
C16_Witness ==
    /\ CycleDone("open") /\ cyc.result = "fail"
    /\ Len(LegAttempts(calls, 1)) = 2 /\ LegAttempts(calls, 1)[2].result = "rejected"
    /\ Len(LegAttempts(calls, 2)) = 1 /\ LegAttempts(calls, 2)[1].result = "filled"
    /\ bot_state = "WAITING" /\ cyc.checks = << >> /\ last_trading_day = None

\* C16 (the value returned): open_all_positions returns True only if the last
\* placement of every leg of the basket it was given was accepted.
C16_SuccessOnlyIfEveryLegOk ==
    (call.fn = "open_all_positions" /\ pc = "return" /\ call.ret.success)
        => \A i \in DOMAIN call.ret.leg_ok : call.ret.leg_ok[i]

\* The closing orders of the current cycle for market m
CloseAttempts(m) == SelectSeq(calls, LAMBDA c : c.op = "close" /\ c.market = m)

\* C17: in close_all_positions a closing order the venue rejects is placed
\* once more for that leg, and if the venue rejects it again
\* close_all_positions does not report success.
C17_RejectedCloseRetriedAndReported ==
    (cyc.kind = "close" /\ cyc.result # "none")
        => \A m \in Markets :
              LET a == CloseAttempts(m)
              IN  /\ (Len(a) >= 1 /\ a[1].result = "rejected") => Len(a) = 2
                  /\ (Len(a) >= 1 /\ a[Len(a)].result = "rejected") => cyc.result # "ok"

\* C18: once open_all_positions or close_all_positions has been called for a
\* trigger, the first call it made to the venue is cancel-all-orders, before
\* any order, whatever the basket or the position snapshot holds.
C18_CancelFirst ==
    (cyc.kind \in {"open", "close"} /\ cyc.result # "none")
        => /\ calls # << >>
           /\ calls[1].op = "cancel"
           /\ \A i \in DOMAIN calls : calls[i].op \in {"open", "close"} => i > 1

\* validate_position_sizes has returned
Validated == call.fn = "validate_position_sizes" /\ pc = "return"

\* The targets of the basket validated, each with its direction
ValidatedTargets == LegsOf(call.long, call.short)

\* What makes a target valid: a position in its pair, on the target's side,
\* with a notional within 1% of the target's (the boundary included)
TargetMet(positions, leg) ==
    /\ leg.pair_config.pair \in DOMAIN positions
    /\ positions[leg.pair_config.pair].side = (IF leg.side = "BUY" THEN "LONG" ELSE "SHORT")
    /\ 100 * Abs(Abs(positions[leg.pair_config.pair].size)
                    * positions[leg.pair_config.pair].mark_price
                 - leg.pair_config.target_size * SizeUnit)
          <= leg.pair_config.target_size * SizeUnit

\* C19: validate_position_sizes marks a target valid iff a position exists for
\* its pair, the position's side matches the target's direction and the
\* notional deviates from the target by at most 1%. (Stated for the targets
\* whose pair occurs once in the basket.)
C19_ValidIffSideAndTolerance ==
    Validated
        => \A i \in DOMAIN ValidatedTargets :
              (\A j \in DOMAIN ValidatedTargets :
                  ValidatedTargets[j].pair_config.pair = ValidatedTargets[i].pair_config.pair
                      => j = i)
                  => (call.ret.results[ValidatedTargets[i].pair_config.pair]
                         <=> TargetMet(call.positions, ValidatedTargets[i]))

\* C20: for an empty basket validate_position_sizes returns is_valid = False,
\* whatever the positions are.
C20_EmptyBasketInvalid ==
    (Validated /\ call.long \o call.short = << >>) => ~call.ret.is_valid

\* An empty basket was validated against a snapshot holding positions
C20_Witness ==
    /\ Validated
    /\ call.long = << >> /\ call.short = << >>
    /\ DOMAIN call.positions = {"BTC-USD", "ETH-USD"}
    /\ ~call.ret.is_valid

\* The function fn of the Scheduler has returned
Returned(fn) == call.fn = fn /\ pc = "return"

\* The instant of a time of day on the date of t
OnDateOf(t, tod) == Date(t) * SecondsPerDay + tod

\* C21: should_open_positions() is true iff last_trading_day is unset or is
\* not today AND the current time is within 60 seconds, on either side, of
\* today's open time.
C21_ShouldOpenIffWindow ==
    Returned("should_open_positions")
        => (call.ret <=> /\ (last_trading_day = None \/ last_trading_day # Date(now))
                         /\ Abs(now - OnDateOf(now, schedule.open_time)) <= 60)

\* It answered yes 60 s before the open time, with yesterday marked
C21_Witness ==
    /\ Returned("should_open_positions")
    /\ call.ret
    /\ now = OnDateOf(now, schedule.open_time) - 60
    /\ last_trading_day = Date(now) - 1

\* should_close_positions has returned under the schedule open / close, with
\* a trading day marked
ClosedAsked(open, close) ==
    /\ Returned("should_close_positions")
    /\ schedule = [open_time |-> open, close_time |-> close]
    /\ last_trading_day # None

\* C22: open 21:00:00, close 06:00:00, last_trading_day = D:
\* should_close_positions() is false at every time on day D, true at every
\* time from 06:00:00 on day D+1, and true at every time on any later day.
C22_CrossMidnightClose ==
    ClosedAsked(ParseTime(21, 0, 0), ParseTime(6, 0, 0))
        => /\ Date(now) = last_trading_day => ~call.ret
           /\ (Date(now) = last_trading_day + 1 /\ TimeOfDay(now) >= ParseTime(6, 0, 0))
                 => call.ret
           /\ Date(now) > last_trading_day + 1 => call.ret

\* It answered no at 21:01:00 on day D, after the open
C22_Witness ==
    /\ ClosedAsked(ParseTime(21, 0, 0), ParseTime(6, 0, 0))
    /\ Date(now) = last_trading_day
    /\ TimeOfDay(now) = ParseTime(21, 1, 0)
    /\ ~call.ret

\* C23: open 09:00:00, close 17:00:00, last_trading_day = D:
\* should_close_positions() is false at every time before 17:00:00 on day D
\* and true at every time from 17:00:00 on day D.
C23_SameDayClose ==
    (ClosedAsked(ParseTime(9, 0, 0), ParseTime(17, 0, 0)) /\ Date(now) = last_trading_day)
        => (call.ret <=> TimeOfDay(now) >= ParseTime(17, 0, 0))

\* C23 as amended: open 09:00:00, close 17:00:00, last_trading_day = D:
\* should_close_positions() is false at every time before 16:59:00 on day D
\* and true at every time from 16:59:00 on day D.
C23_SameDayCloseWithLead ==
    (ClosedAsked(ParseTime(9, 0, 0), ParseTime(17, 0, 0)) /\ Date(now) = last_trading_day)
        => (call.ret <=> TimeOfDay(now) >= ParseTime(16, 59, 0))

\* It answered yes at 16:59:00 on day D, and that is before 17:00:00
C23_Witness ==
    /\ ClosedAsked(ParseTime(9, 0, 0), ParseTime(17, 0, 0))
    /\ Date(now) = last_trading_day
    /\ TimeOfDay(now) = ParseTime(16, 59, 0)
    /\ call.ret

\* The date on which the close is due
ExpectedCloseDate ==
    IF schedule.close_time < schedule.open_time
    THEN last_trading_day + 1 ELSE last_trading_day

\* C24: with last_trading_day set and today later than the expected close
\* date (last_trading_day, or last_trading_day + 1 for a cross-midnight
\* schedule) should_close_positions() is true at every time of day; with
\* last_trading_day unset it is false at every time.
C24_MissedCloseRecovery ==
    Returned("should_close_positions")
        => /\ (last_trading_day # None /\ Date(now) > ExpectedCloseDate) => call.ret
           /\ last_trading_day = None => ~call.ret

\* It answered yes at midnight, hours before the close time, two days after
\* the trading day of a cross-midnight schedule
C24_Witness ==
    /\ Returned("should_close_positions")
    /\ schedule.close_time < schedule.open_time
    /\ last_trading_day # None
    /\ Date(now) = last_trading_day + 2
    /\ TimeOfDay(now) = 0
    /\ call.ret

\* The current time is within 5 minutes of today's open time
NearOpen == Abs(now - OnDateOf(now, schedule.open_time)) <= 300

\* C25: get_next_check_interval() returns 30 whenever the current time is
\* within 5 minutes of either trigger, the open time or the close time, and
\* 60 at every other time.
C25_ShortNearEitherTrigger ==
    Returned("get_next_check_interval")
        => call.ret = IF NearOpen \/ Abs(now - OnDateOf(now, schedule.close_time)) <= 300
                      THEN 30 ELSE 60

\* C25 as amended: get_next_check_interval() returns 30 whenever the current
\* time is within 5 minutes of today's open time or, with a trading day
\* marked, within 5 minutes of the close time on the expected close date; it
\* returns 60 at every other time, and never another value.
C25_ShortNearPendingTrigger ==
    Returned("get_next_check_interval")
        => /\ call.ret \in {30, 60}
           /\ call.ret = 30
                 <=> \/ NearOpen
                     \/ /\ last_trading_day # None
                        /\ Abs(now - (ExpectedCloseDate * SecondsPerDay + schedule.close_time))
                              <= 300

\* It answered 30 five minutes before the close that is due, far from the open
C25_Witness ==
    /\ Returned("get_next_check_interval")
    /\ call.ret = 30
    /\ ~NearOpen
    /\ last_trading_day # None
    /\ now = ExpectedCloseDate * SecondsPerDay + schedule.close_time - 300

\* The close orders of the current cycle sent for market m
CloseOrders(m) == {i \in DOMAIN calls : calls[i].op = "close" /\ calls[i].market = m}

\* p is the least multiple of the price step at or above num / BufferScale
QuantizedFrom(p, num) ==
    /\ p % MarketPrecision.min_price_change = 0
    /\ p * BufferScale >= num
    /\ (p - MarketPrecision.min_price_change) * BufferScale < num

\* C26: every order close_all_positions places is for a position of the
\* snapshot it was handed, on the opposite side: SELL priced from
\* bid * (1 - buffer) for a Long, BUY priced from ask * (1 + buffer) for a
\* Short; and when it returns True every position of the snapshot larger than
\* 1e-5 got exactly one such order.
C26_CloseOppositeSideOnly ==
    /\ \A i \in DOMAIN calls :
          calls[i].op = "close" =>
             /\ calls[i].market \in DOMAIN cyc.snapshot
             /\ LET position_data == cyc.snapshot[calls[i].market]
                IN  IF position_data.side = "LONG"
                    THEN /\ calls[i].side = "SELL"
                         /\ QuantizedFrom(calls[i].price, BestBid * (BufferScale - PriceBuffer))
                    ELSE /\ calls[i].side = "BUY"
                         /\ QuantizedFrom(calls[i].price, BestAsk * (BufferScale + PriceBuffer))
    /\ (cyc.kind = "close" /\ cyc.result = "ok") =>
          \A m \in DOMAIN cyc.snapshot :
             Abs(cyc.snapshot[m].size) > Epsilon => Cardinality(CloseOrders(m)) = 1

\* C26 witness: a close of a long and a short position has sent a SELL for the
\* long and a BUY for the short.
C26_Witness ==
    /\ cyc.kind = "close"
    /\ \E m1, m2 \in DOMAIN cyc.snapshot :
          /\ cyc.snapshot[m1].side = "LONG"
          /\ cyc.snapshot[m2].side = "SHORT"
          /\ \E i \in CloseOrders(m1) : calls[i].side = "SELL"
          /\ \E i \in CloseOrders(m2) : calls[i].side = "BUY"

\* C27: quantize(value, step) with step > 0 returns the smallest multiple of
\* step that is >= value: a multiple of step, never below the input, and above
\* it by less than one step.
C27_QuantizeLeastMultipleAbove ==
    Returned("quantize") =>
        /\ call.ret % call.step = 0
        /\ call.ret >= call.value
        /\ call.ret - call.value < call.step

\* The notional of a target in the units of quantity * price
TargetNotional(target_size) == target_size * SizeUnit * CentsPerDollar

\* The three properties of a submitted opening quantity
SizedAsClaimed ==
    /\ call.qty % call.precision.min_order_size_change = 0
    /\ call.qty >= call.precision.min_order_size
    /\ call.qty * call.price >= TargetNotional(call.target_size)

\* C28: for every opening leg the submitted quantity is a multiple of the size
\* step, is >= min_order_size, and quantity * quantized price >= target notional.
C28_OpenSizing == Returned("open_leg_sizing") => SizedAsClaimed

\* What remains of C28 where quantize prints the multiple it computed: a size
\* step below one unit, or of whole units.
Sizing_PrintableStep ==
    (/\ Returned("open_leg_sizing")
     /\ \/ call.precision.min_order_size_change < SizeUnit
        \/ call.precision.min_order_size_change % SizeUnit = 0)
        => SizedAsClaimed

\* C29: when the bid/ask request of a batch fails, open_all_positions (resp.
\* close_all_positions) places no order and returns failure, and the state is
\* back at WAITING (resp. OPEN) with the trading day as the cycle found it.
C29_PriceFailureAbandonsBatch ==
    cyc.prices = "fail" =>
        /\ \A i \in DOMAIN calls : calls[i].op \notin {"open", "close"}
        /\ cyc.result = "fail"
        /\ cyc.kind \in {"open", "close"}
        /\ cyc.kind = "open" => bot_state = "WAITING"
        /\ cyc.kind = "close" => bot_state = "OPEN"
        /\ last_trading_day = cyc.day0

\* C29 witness: a close of held positions whose price request failed is over,
\* and the bot is OPEN again.
C29_Witness ==
    /\ cyc.kind = "close"
    /\ cyc.prices = "fail"
    /\ has_positions(cyc.snapshot)
    /\ pc = "poll_sleep"
    /\ bot_state = "OPEN"

\* C30: between the start of the process (or the last CLOSING -> WAITING) and
\* the next CLOSING -> WAITING the venue accepts at most one opening order per
\* leg of the basket.
C30_NoDuplicateExposure == \A i \in DOMAIN Legs : accepted[i] # "many"

\* The duplicate of C30 within one open window: a leg has had two opening
\* orders accepted on the day the process started.
SameDayDuplicate == \E i \in DOMAIN Legs : accepted[i] = "many" /\ Date(now) = 1

\* The calls cs hold a closing order
HasCloseOrder(cs) == \E k \in DOMAIN cs : cs[k].op = "close"

\* C31: under a cross-midnight schedule a basket confirmed open on day D gets
\* no close order before close_time - 60 s on day D+1, restarts of the process
\* during the hold included.
C31_HeldUntilClose ==
    [][(/\ schedule.close_time < schedule.open_time
        /\ confirmed_on \notin {NotKept, None}
        /\ ~HasCloseOrder(calls) /\ HasCloseOrder(calls'))
          => now >= (confirmed_on + 1) * SecondsPerDay + schedule.close_time - CloseLead]_vars

\* What remains of C31: a close order before close_time - 60 s on day D+1 is
\* sent only by a process that found the basket at a startup on day D itself
\* and so holds the mark D-1.
Hold_UnlessBackdated ==
    [][(/\ schedule.close_time < schedule.open_time
        /\ confirmed_on \notin {NotKept, None}
        /\ ~HasCloseOrder(calls) /\ HasCloseOrder(calls'))
          => \/ now >= (confirmed_on + 1) * SecondsPerDay + schedule.close_time - CloseLead
             \/ last_trading_day = confirmed_on - 1]_vars

\* A cycle boundary: a trading cycle is about to begin, or has just ended
CycleBoundary == pc \in {"cycle", "poll_sleep"}

\* C32: at every cycle boundary bot_state is WAITING or OPEN, never OPENING
\* or CLOSING, so the OPENING / CLOSING branches of _process_trading_cycle
\* are never taken.
C32_NoTransientStateAtBoundary ==
    /\ CycleBoundary => bot_state \in {"WAITING", "OPEN"}
    /\ ~ENABLED TransientCycle

\* C32 witness: an open whose two validations failed has ended, back at WAITING.
C32_Witness ==
    /\ pc = "poll_sleep"
    /\ cyc.kind = "open"
    /\ Len(cyc.checks) = 2
    /\ bot_state = "WAITING"

\* C33: at every cycle boundary the trading day is unset when bot_state is
\* WAITING (and set when it is OPEN), so from WAITING should_open_positions()
\* answers by the open window alone: the day gate never blocks it.
C33_WaitingIffUnmarked ==
    CycleBoundary =>
        /\ bot_state = "WAITING" => last_trading_day = None
        /\ bot_state = "OPEN" => last_trading_day # None
        /\ bot_state = "WAITING" =>
              (should_open_positions(now, last_trading_day, schedule)
                  <=> Abs(TimeOfDay(now) - schedule.open_time) <= OpenWindow)

\* C33 witness: a close has been verified and the cycle ended in WAITING with
\* the trading day, set when the cycle began, reset.
C33_Witness ==
    /\ pc = "poll_sleep"
    /\ cyc.kind = "close"
    /\ cyc.day0 # None
    /\ bot_state = "WAITING"
    /\ last_trading_day = None

\* should_close_positions() at the present time
CloseDue == should_close_positions(now, last_trading_day, schedule)

\* C34: with last_trading_day fixed, should_close_positions() once true stays
\* true at every later time; so after a close attempt that failed and went
\* back to OPEN the close is due at every later cycle, and each such cycle
\* (unless the process is stopped first) starts the close again.
C34_CloseStaysDue ==
    /\ [][(CloseDue /\ last_trading_day' = last_trading_day) => CloseDue']_vars
    /\ []((cyc.kind = "close" /\ bot_state = "OPEN") => CloseDue)
    /\ [][(pc = "cycle" /\ bot_state = "OPEN" /\ CloseDue /\ is_running')
             => (bot_state' = "CLOSING" /\ pc' = "close_all")]_vars

\* C34 witness: a close attempt has failed and gone back to OPEN, time has
\* passed, and the close is still due.
C34_Witness ==
    /\ pc = "poll_sleep"
    /\ cyc.kind = "close"
    /\ cyc.result = "fail"
    /\ bot_state = "OPEN"
    /\ CloseDue

\* C35: the quantity of a close order never exceeds the absolute size of the
\* position it closes, whatever the reported size and the size step.
C35_CloseQtyWithinSize ==
    Returned("close_leg") => \A k \in DOMAIN call.orders : call.orders[k].qty <= call.size

\* What holds instead: the quantity is the least multiple of the size step at
\* or above the size (for a step below one unit or of whole units), so it
\* equals the size exactly when the size is a multiple of the step.
CloseQty_LeastMultipleAbove ==
    (/\ Returned("close_leg")
     /\ \/ call.precision.min_order_size_change < SizeUnit
        \/ call.precision.min_order_size_change % SizeUnit = 0)
        => \A k \in DOMAIN call.orders :
              /\ call.orders[k].qty % call.precision.min_order_size_change = 0
              /\ call.orders[k].qty >= call.size
              /\ call.orders[k].qty - call.size < call.precision.min_order_size_change

\* C36: validate_position_sizes returns is_valid = True only if every entry
\* of the basket is valid by itself (a position in its pair with a notional
\* within 1% of the entry's target), also when a pair has several entries.
C36_ValidOnlyIfEveryEntryValid ==
    (Validated /\ call.ret.is_valid)
        => \A i \in DOMAIN ValidatedTargets :
              PairValid(call.positions, ValidatedTargets[i].pair_config)

\* The same for the baskets that name no pair twice
Valid_EveryEntryOfDistinctPairs ==
    (/\ Validated /\ call.ret.is_valid
     /\ \A i, j \in DOMAIN ValidatedTargets :
           ValidatedTargets[i].pair_config.pair = ValidatedTargets[j].pair_config.pair
               => i = j)
        => \A i \in DOMAIN ValidatedTargets :
              PairValid(call.positions, ValidatedTargets[i].pair_config)

\* The loop is about to evaluate should_open_positions again
Polling == call.fn = "poll" /\ pc = "cycle" /\ call.evaluated_at # None

LegacyLoop == call.fn = "legacy" /\ pc = "legacy_loop"

\* C38: the legacy bot opens the basket at most once per calendar day: once
\* close_positions has run at or after the close time, should_open_positions
\* is not True again on the same day.
C38_LegacyOpensOncePerDay ==
    LegacyLoop
        => /\ call.opens <= 1
           /\ (call.closed_on = Date(now) /\ call.opened_on = Date(now))
                 => ~legacy_should_open_positions(now, call.positions_opened_today, schedule)

\* What the flag does guarantee: no open is attempted while it is set
Legacy_NoOpenWhileFlagSet ==
    [][(LegacyLoop /\ call.positions_opened_today) => call'.opens = call.opens]_vars

====
